---- MODULE Spec2Model ----
\* nest-craft: Docker Compose assembler, artifact writer and the
\* initialization run around them, modelled as state machines.
\*
\* Text is modelled as a sequence of tokens.  A token is the newline NL, the
\* network placeholder PH, a network name, or a maximal run of characters
\* between those.  Every pattern the code searches for is a whole number of
\* tokens, so String.replace / String.replaceAll become first-occurrence /
\* every-occurrence subsequence replacement.
EXTENDS Integers, Sequences, FiniteSets, TLC

\* ------------------------------------------------------------------ bounds
\* Longest selection handed to the assembler on its own.
MaxServices == 3

\* Longest selection handed to dockerComposeGenerator.
MaxGenServices == 2

\* ------------------------------------------------------------ text tokens
NL == "\n"

\* The placeholder token '{ { NETWORK } }'.
PH == "{ { NETWORK } }"

\* ------------------------------------------------------------ the catalog
\* ServicesName: the identifiers that have a prompt and a template.
ServicesName ==
    << "node", "mongodb", "mongo-express", "redis", "redis-insight", "mysql",
       "phpmyadmin", "postgresql", "pgadmin", "rabbitmq", "elasticsearch",
       "kibana", "kafka", "nginx" >>

Range(s) == { s[k] : k \in 1..Len(s) }

CatalogIds == Range(ServicesName)

\* An identifier with no services/<id>.config.yaml file.
UnknownIds == { "memcached" }

SelectableIds == CatalogIds \cup UnknownIds

\* Network names the text prompt accepts (/^[a-zA-Z-]+$/), and "" for none.
NetworkNames == { "", "appnet" }

\* services/network.config.yaml.
Tpl_network ==
    << "networks:", NL, "  ", PH, ":", NL, "    driver: bridge", NL >>

\* services/node.config.yaml.
Tpl_node ==
    << "services:", NL, "  node:", NL, "    build:", NL, "      context: ./", NL,
       "    container_name: node", NL, "    ports:", NL, "      - \"3000:3000\"", NL,
       "    volumes:", NL, "      - /application/node_modules", NL, "    networks:", NL,
       "      - ", PH, NL, "    restart: always", NL, NL >>

\* services/mongodb.config.yaml.
Tpl_mongodb ==
    << "services:", NL, "  mongodb:", NL, "    image: mongo:latest", NL,
       "    container_name: mongodb", NL, "    ports:", NL, "      - \"27017:27017\"",
       NL, "    volumes:", NL, "      - ./data/mongodb:/data/db", NL, "    networks:",
       NL, "      - ", PH, NL, "    environment:", NL,
       "      - MONGO_INITDB_ROOT_USERNAME=root", NL,
       "      - MONGO_INITDB_ROOT_PASSWORD=root", NL, "    restart: always", NL, NL >>

\* services/mongo-express.config.yaml.
Tpl_mongo_express ==
    << "services:", NL, "  mongo-express:", NL, "    image: mongo-express:latest", NL,
       "    container_name: mongo-express", NL, "    ports:", NL,
       "      - \"8081:8081\"", NL, "    networks:", NL, "      - ", PH, NL,
       "    depends_on:", NL, "      - mongodb", NL, "    environment:", NL,
       "      - ME_CONFIG_MONGODB_ADMINUSERNAME=root", NL,
       "      - ME_CONFIG_MONGODB_ADMINPASSWORD=root", NL,
       "      - ME_CONFIG_MONGODB_SERVER=mongodb", NL, "    restart: always", NL, NL >>

\* services/redis.config.yaml.
Tpl_redis ==
    << "services:", NL, "  redis:", NL, "    image: redis:latest", NL,
       "    container_name: redis", NL, "    ports:", NL, "      - \"6379:6379\"", NL,
       "    networks:", NL, "      - ", PH, NL, "    volumes:", NL,
       "      - ./data/redis:/data", NL,
       "    command: [\"redis-server\", \"--appendonly\", \"yes\"]", NL,
       "    restart: always", NL, NL >>

\* services/redis-insight.config.yaml.
Tpl_redis_insight ==
    << "services:", NL, "  redis-insight:", NL, "    image: redis/redisinsight:latest",
       NL, "    container_name: redis-insight", NL, "    ports:", NL,
       "      - \"8001:8001\"", NL, "    networks:", NL, "      - ", PH, NL,
       "    depends_on:", NL, "      - redis", NL, "    restart: always", NL, NL >>

\* services/mysql.config.yaml.
Tpl_mysql ==
    << "services:", NL, "  mysql:", NL, "    image: mysql:latest", NL,
       "    container_name: mysql", NL, "    ports:", NL, "      - \"3306:3306\"", NL,
       "    volumes:", NL, "      - ./data/mysql:/var/lib/mysql", NL, "    networks:",
       NL, "      - ", PH, NL, "    environment:", NL,
       "      - MYSQL_ROOT_PASSWORD=root", NL, "      - MYSQL_DATABASE=my_database", NL,
       "      - MYSQL_USER=user", NL, "      - MYSQL_PASSWORD=password", NL,
       "    restart: always", NL, NL >>

\* services/phpmyadmin.config.yaml.
Tpl_phpmyadmin ==
    << "services:", NL, "  phpmyadmin:", NL, "    image: phpmyadmin/phpmyadmin:latest",
       NL, "    container_name: phpmyadmin", NL, "    ports:", NL,
       "      - \"8080:80\"", NL, "    networks:", NL, "      - ", PH, NL,
       "    depends_on:", NL, "      - mysql", NL, "    environment:", NL,
       "      - PMA_HOST=mysql", NL, "      - PMA_USER=user", NL,
       "      - PMA_PASSWORD=password", NL, "    restart: always", NL, NL >>

\* services/postgresql.config.yaml.
Tpl_postgresql ==
    << "services:", NL, "  postgresql:", NL, "    image: postgres:latest", NL,
       "    container_name: postgresql", NL, "    ports:", NL, "      - \"5432:5432\"",
       NL, "    volumes:", NL, "      - ./data/postgresql:/var/lib/postgresql/data", NL,
       "    networks:", NL, "      - ", PH, NL, "    environment:", NL,
       "      - POSTGRES_USER=admin", NL, "      - POSTGRES_PASSWORD=password", NL,
       "      - POSTGRES_DB=my_db", NL, "    restart: always", NL, NL >>

\* services/pgadmin.config.yaml.
Tpl_pgadmin ==
    << "services:", NL, "  pgadmin:", NL, "    image: dpage/pgadmin4:latest", NL,
       "    container_name: pgadmin", NL, "    ports:", NL, "      - \"5050:80\"", NL,
       "    networks:", NL, "      - ", PH, NL, "    depends_on:", NL,
       "      - postgresql", NL, "    environment:", NL,
       "      - PGADMIN_DEFAULT_EMAIL=admin@admin.com", NL,
       "      - PGADMIN_DEFAULT_PASSWORD=admin", NL, "    restart: always", NL, NL >>

\* services/rabbitmq.config.yaml.
Tpl_rabbitmq ==
    << "services:", NL, "  rabbitmq:", NL, "    image: rabbitmq:management", NL,
       "    container_name: rabbitmq", NL, "    ports:", NL, "      - \"5672:5672\"",
       NL, "      - \"15672:15672\"", NL, "    networks:", NL, "      - ", PH, NL,
       "    environment:", NL, "      - RABBITMQ_DEFAULT_USER=admin", NL,
       "      - RABBITMQ_DEFAULT_PASS=admin", NL, "    restart: always", NL, NL >>

\* services/elasticsearch.config.yaml, token by token.
Tpl_elasticsearch ==
    << "services:", NL, "  elasticsearch:", NL,
       "    image: docker.elastic.co/elasticsearch/elasticsearch:8.17.0", NL,
       "    container_name: elasticsearch", NL, "    ports:", NL,
       "      - \"9200:9200\"", NL, "      - \"9300:9300\"", NL, "    networks:", NL,
       "      - ", PH, NL, "    environment:", NL, "      - discovery.type=single-node",
       NL, "      - ES_JAVA_OPTS=-Xms512m -Xmx512m", NL, "    volumes:", NL,
       "      - ./data/elasticsearch:/usr/share/elasticsearch/data", NL,
       "    restart: always", NL, NL >>

\* services/kibana.config.yaml.
Tpl_kibana ==
    << "services:", NL, "  kibana:", NL, "    image: kibana:8.17.0", NL,
       "    container_name: kibana", NL, "    ports:", NL, "      - \"5601:5601\"", NL,
       "    networks:", NL, "      - ", PH, NL, "    depends_on:", NL,
       "      - elasticsearch", NL, "    environment:", NL,
       "      - ELASTICSEARCH_HOSTS=http://elasticsearch:9200", NL,
       "    restart: always", NL, NL >>

\* services/kafka.config.yaml.
Tpl_kafka ==
    << "services:", NL, "  zookeeper:", NL,
       "    image: confluentinc/cp-zookeeper:latest", NL,
       "    container_name: zookeeper", NL, "    ports:", NL, "      - \"2181:2181\"",
       NL, "    networks:", NL, "      - ", PH, NL, "    environment:", NL,
       "      ZOOKEEPER_CLIENT_PORT: 2181", NL, "      ZOOKEEPER_TICK_TIME: 2000", NL,
       "    restart: always", NL, NL, "  kafka:", NL,
       "    image: confluentinc/cp-kafka:latest", NL, "    container_name: kafka", NL,
       "    ports:", NL, "      - \"9092:9092\"", NL, "      - \"29092:29092\"", NL,
       "    networks:", NL, "      - ", PH, NL, "    depends_on:", NL,
       "      - zookeeper", NL, "    environment:", NL, "      KAFKA_BROKER_ID: 1", NL,
       "      KAFKA_ZOOKEEPER_CONNECT: zookeeper:2181", NL,
       "      KAFKA_ADVERTISED_LISTENERS: PLAINTEXT://kafka:9092,PLAINTEXT_HOST://localhost:29092",
       NL, "      KAFKA_INTER_BROKER_LISTENER_NAME: PLAINTEXT", NL,
       "      KAFKA_OFFSETS_TOPIC_REPLICATION_FACTOR: 1", NL, "    restart: always", NL,
       NL >>

\* services/nginx.config.yaml.
Tpl_nginx ==
    << "services:", NL, "  nginx:", NL, "    image: nginx:latest", NL,
       "    container_name: nginx", NL, "    ports:", NL, "      - \"80:80\"", NL,
       "      - \"443:443\"", NL, "    volumes:", NL,
       "      - ./nginx.conf:/etc/nginx/nginx.conf", NL, "    networks:", NL,
       "      - ", PH, NL, "    restart: always", NL, NL >>

Template(service) ==
    CASE service = "node" -> Tpl_node
      [] service = "mongodb" -> Tpl_mongodb
      [] service = "mongo-express" -> Tpl_mongo_express
      [] service = "redis" -> Tpl_redis
      [] service = "redis-insight" -> Tpl_redis_insight
      [] service = "mysql" -> Tpl_mysql
      [] service = "phpmyadmin" -> Tpl_phpmyadmin
      [] service = "postgresql" -> Tpl_postgresql
      [] service = "pgadmin" -> Tpl_pgadmin
      [] service = "rabbitmq" -> Tpl_rabbitmq
      [] service = "elasticsearch" -> Tpl_elasticsearch
      [] service = "kibana" -> Tpl_kibana
      [] service = "kafka" -> Tpl_kafka
      [] service = "nginx" -> Tpl_nginx

\* fs.readFile of a template succeeds only when the file exists.
HasTemplate(service) == service \in CatalogIds

\* ------------------------------------------------- String.replace and co.
MatchAt(s, pat, k) ==
    /\ k + Len(pat) - 1 <= Len(s)
    /\ SubSeq(s, k, k + Len(pat) - 1) = pat

\* Index of the first occurrence of pat in s, 0 when there is none.
IndexOf(s, pat) ==
    LET hits == { k \in 1..Len(s) : MatchAt(s, pat, k) }
    IN  IF hits = {} THEN 0
        ELSE CHOOSE k \in hits : \A j \in hits : k <= j

\* String.prototype.replace with a string pattern: the first occurrence only.
ReplaceFirst(s, pat, rep) ==
    LET k == IndexOf(s, pat)
    IN  IF k = 0 THEN s
        ELSE SubSeq(s, 1, k - 1) \o rep \o SubSeq(s, k + Len(pat), Len(s))

\* String.prototype.replaceAll: every occurrence, left to right.
RECURSIVE ReplaceAll(_, _, _)
ReplaceAll(s, pat, rep) ==
    LET k == IndexOf(s, pat)
    IN  IF k = 0 THEN s
        ELSE SubSeq(s, 1, k - 1) \o rep
             \o ReplaceAll(SubSeq(s, k + Len(pat), Len(s)), pat, rep)

\* Array.prototype.includes.
Includes(s, x) == \E k \in 1..Len(s) : s[k] = x

\* Number of occurrences of the token t in s.
Count(s, t) == Cardinality({ k \in 1..Len(s) : s[k] = t })

\* Array.prototype.join on a list of token sequences.
RECURSIVE Join(_, _)
Join(parts, sep) ==
    IF Len(parts) = 0 THEN << >>
    ELSE IF Len(parts) = 1 THEN parts[1]
    ELSE parts[1] \o sep \o Join(Tail(parts), sep)

\* ---------------------------------------------------------- getServiceConfig
\* "Remove 'services:' prefix".
StripServicesPrefix_keep(configContent) == configContent

StripServicesPrefix(configContent) ==
    ReplaceFirst(configContent, << "services:" >>, << >>)

NetworksBlock == << NL, "    networks:", NL, "      - ", PH >>

\* "Adjust network settings".
AdjustNetwork_noSubstitute(configContent, net) ==
    IF net = ""
    THEN ReplaceAll(configContent, NetworksBlock, << >>)
    ELSE configContent

AdjustNetwork_itemOnly(configContent, net) ==
    IF net = ""
    THEN ReplaceAll(configContent, << NL, "      - ", PH >>, << >>)
    ELSE ReplaceAll(configContent, << PH >>, << net >>)

AdjustNetwork(configContent, net) ==
    IF net = ""
    THEN ReplaceAll(configContent, NetworksBlock, << >>)
    ELSE ReplaceAll(configContent, << PH >>, << net >>)

\* The fixed list the depends_on entries are filtered from.
DependableServices ==
    << "mongodb", "redis", "mysql", "postgresql", "rabbitmq",
       "elasticsearch", "kafka" >>

\* dependsOn: the dependable services that the selection includes.
DependsOn_selectionOrder(selected) ==
    SelectSeq(selected, LAMBDA s : Includes(DependableServices, s))

DependsOn_everySelected(selected) ==
    SelectSeq(ServicesName, LAMBDA s : s # "node" /\ Includes(selected, s))

DependsOn(selected) ==
    SelectSeq(DependableServices, LAMBDA dependency : Includes(selected, dependency))

\* dep => `      - ${dep}`
DepLine(dep) ==
    CASE dep = "node" -> "      - node"
      [] dep = "mongodb" -> "      - mongodb"
      [] dep = "mongo-express" -> "      - mongo-express"
      [] dep = "redis" -> "      - redis"
      [] dep = "redis-insight" -> "      - redis-insight"
      [] dep = "mysql" -> "      - mysql"
      [] dep = "phpmyadmin" -> "      - phpmyadmin"
      [] dep = "postgresql" -> "      - postgresql"
      [] dep = "pgadmin" -> "      - pgadmin"
      [] dep = "rabbitmq" -> "      - rabbitmq"
      [] dep = "elasticsearch" -> "      - elasticsearch"
      [] dep = "kibana" -> "      - kibana"
      [] dep = "kafka" -> "      - kafka"
      [] dep = "nginx" -> "      - nginx"
      [] OTHER -> "      - ?"

RestartLine == << NL, "    restart: always" >>

\* dependsOnSection: '\n    depends_on:\n' + the entries joined by '\n'.
DependsOnSection(dependsOn) ==
    << NL, "    depends_on:", NL >>
    \o Join([ k \in 1..Len(dependsOn) |-> << DepLine(dependsOn[k]) >> ], << NL >>)

\* "Add depends_on section for Node service".
AddDependsOn(configContent, service, selected) ==
    IF service = "node" /\ Len(DependsOn(selected)) > 0
    THEN ReplaceFirst(configContent, RestartLine,
                      DependsOnSection(DependsOn(selected)) \o RestartLine)
    ELSE configContent

\* The processed fragment of one service, given that its template exists.
getServiceConfig(service, net, selected) ==
    AddDependsOn(AdjustNetwork(StripServicesPrefix(Template(service)), net),
                 service, selected)

\* --------------------------------------------------------------- the state
VARIABLES
    status,     \* dockerComposeConfig.status
    services,   \* dockerComposeConfig.services
    network,    \* dockerComposeConfig.network
    pc,         \* position in the code
    i,          \* index of the next service of the for..of loop
    content,    \* the text assembled so far
    fragments,  \* the serviceConfig values appended so far
    err,        \* the rejection that ended the pipeline, "" when none
    tempFile,   \* <tempDirectory>/docker-compose.yml
    finalFile,  \* <project>/docker-compose.yml
    priorFile,  \* <project>/docker-compose.yml as it was at the call
    copied,     \* companion files present in the project root
    inflight,   \* copyFile calls started and not yet settled
    fsLog,      \* the filesystem operations performed, in order
    dirs,       \* the directories that exist, of Directories
    nonEmpty,   \* the target directory has entries
    created,    \* the directories this run has created
    preDirs,    \* dirs as it was when the run started
    writable,   \* the closest existing ancestor of the parent is writable
    newDirectory, \* what createParentDirectory returned
    rmFailed,   \* the directories whose removal the handler tried and failed
    exitCode,   \* the exit status, -1 while the process runs
    step,       \* index of the next step of initializeProject after compose
    asked,      \* the prompts of selectDockerServices answered so far, in order
    cancelledAt, \* the prompt at which the operator cancelled, "" when none
    rejects,    \* inputs the validator of the network name has rejected
    ask,        \* index of the next askService call
    uid,        \* process.getuid()
    argv,       \* process.argv[2], "undefined" when absent
    command,    \* what commandManager has called, "none" before it has
    nestProject, \* the target holds a package.json that names @nestjs/
    firstContent, \* what the first call of the assembler returned
    runs,       \* the number of the assembler call under way
    nestOptions, \* what the operator typed at the extra 'nest new' options prompt
    sanitized,  \* what sanitizeNestOptions returned
    jest, \* test/jest-e2e.json and jest-module-name-mapper as filesManager has left them
    mainTs, \* src/main.ts, a list of lines
    mainOptions, \* the options modifyMainTsFile was called with
    modifications, \* the modifications modifyMainTsFile has still to process
    securityEnabled, \* promptSecurityOptions: the answer to its first question
    selectedOptions, \* promptSecurityOptions: what the multi-select returned
    securityOptions, \* what promptSecurityOptions returned
    clock, \* Date.now() on the server that takes the uploads
    uploads, \* the upload requests, each with its file and what multer was told
    tempDirectory \* whether ./assets/.temp exists

vars ==
    << status, services, network, pc, i, content, fragments, err, tempFile,
       finalFile, priorFile, copied, inflight, fsLog, dirs, nonEmpty, created,
       preDirs, writable, newDirectory, rmFailed, exitCode, step, asked,
       cancelledAt, rejects, ask, uid, argv, command, nestProject,
       firstContent, runs, nestOptions, sanitized, jest, mainTs, mainOptions,
       modifications, securityEnabled, selectedOptions, securityOptions,
       clock, uploads, tempDirectory >>

selVars == << asked, cancelledAt, rejects, ask >>

\* The extra 'nest new' options.
optVars == << nestOptions, sanitized >>

\* What filesManager has done about the end-to-end test configuration.
jestVars == << jest >>

\* What modifyMainTsFile works on.
mainVars == << mainTs, mainOptions, modifications >>

\* What promptSecurityOptions has asked and returned.
secVars == << securityEnabled, selectedOptions, securityOptions >>

\* The uploads the generated multer configuration handles.
uploadVars == << clock, uploads, tempDirectory >>

\* The state of the parts of the program outside the compose flow.
extraVars == << optVars, jestVars, mainVars, secVars, uploadVars >>


\* What a flow is started with and does not change.
envVars ==
    << priorFile, preDirs, writable, uid, argv, command, nestProject,
       firstContent, runs, extraVars >>

configVars == << status, services, network, envVars, selVars >>

asmVars == << i, content, fragments >>

fileVars == << tempFile, finalFile, copied, inflight >>

dirVars == << dirs, nonEmpty, created >>

runVars == << newDirectory, rmFailed, exitCode, step >>

\* The state of the flows of initialization and addFeature but for the
\* position in the code and the exit status.
baseVars ==
    << status, services, network, priorFile, preDirs, writable, uid, argv,
       command, nestProject, firstContent, runs, selVars, asmVars, fileVars,
       dirVars, newDirectory, rmFailed, step, err, fsLog >>

\* The target directory, its parent, an ancestor of the parent that mkdir -p
\* may have to create, and the directory fs.mkdtemp makes.
Directories == { "grand", "parent", "target", "tmp" }

NoFile == [exists |-> FALSE, data |-> << >>]

File(data) == [exists |-> TRUE, data |-> data]

\* What an interrupted write leaves behind: a proper prefix of the text.
Partial(data) == File(SubSeq(data, 1, Len(data) \div 2))

\* Selections: lists of identifiers of length at most n without repetition.
Selections(n) ==
    { s \in UNION { [1..k -> SelectableIds] : k \in 0..n } :
        \A a, b \in 1..Len(s) : a # b => s[a] # s[b] }

\* ------------------------------------------------ generateDockerComposeContent
\* "Add network section if configured".
NetworkSection_raw(net) ==
    IF net # "" THEN Tpl_network ELSE << >>

NetworkSection(net) ==
    IF net # "" THEN ReplaceFirst(Tpl_network, << PH >>, << net >>) ELSE << >>

\* The header appended to a content that outlives the call, as a
\* module-level accumulator would.
AsmHeader_keepContent ==
    /\ pc = "asm_header"
    /\ content' = content \o NetworkSection(network) \o << NL, "services:" >>
    /\ fsLog' = IF network # "" THEN Append(fsLog, "read") ELSE fsLog
    /\ i' = 1
    /\ pc' = "asm_service"
    /\ UNCHANGED << configVars, dirVars, runVars, fragments, err, fileVars >>

\* let content = '', the network section if a network is configured, and
\* '\nservices:'.
AsmHeader ==
    /\ pc = "asm_header"
    /\ content' = NetworkSection(network) \o << NL, "services:" >>
    /\ fsLog' = IF network # "" THEN Append(fsLog, "read") ELSE fsLog
    /\ i' = 1
    /\ pc' = "asm_service"
    /\ UNCHANGED << configVars, dirVars, runVars, fragments, err, fileVars >>

\* One iteration of the loop that goes on after a missing template.
AsmServiceOk_skipMissing ==
    /\ pc = "asm_service"
    /\ i <= Len(services)
    /\ fsLog' = Append(fsLog, "read")
    /\ IF HasTemplate(services[i])
       THEN LET serviceConfig == getServiceConfig(services[i], network, services)
            IN  /\ fragments' = Append(fragments, serviceConfig)
                /\ content' = content \o serviceConfig
       ELSE UNCHANGED << fragments, content >>
    /\ i' = i + 1
    /\ UNCHANGED << configVars, dirVars, runVars, pc, err, fileVars >>

AsmServiceOk ==
    /\ pc = "asm_service"
    /\ i <= Len(services)
    /\ HasTemplate(services[i])
    /\ fsLog' = Append(fsLog, "read")
    /\ LET serviceConfig == getServiceConfig(services[i], network, services)
       IN  /\ fragments' = Append(fragments, serviceConfig)
           /\ content' = content \o serviceConfig
    /\ i' = i + 1
    /\ UNCHANGED << configVars, dirVars, runVars, pc, err, fileVars >>

\* One iteration of the loop, fs.readFile rejecting: the file is missing, or
\* the read fails for another reason.
AsmServiceFail ==
    /\ pc = "asm_service"
    /\ i <= Len(services)
    /\ err' = IF HasTemplate(services[i]) THEN "read failed" ELSE "ENOENT"
    /\ fsLog' = Append(fsLog, "read")
    /\ pc' = "failed"
    /\ UNCHANGED << configVars, dirVars, runVars, asmVars, fileVars >>

\* return content.
AsmReturn ==
    /\ pc = "asm_service"
    /\ i > Len(services)
    /\ pc' = "asm_done"
    /\ UNCHANGED << configVars, dirVars, runVars, asmVars, err, fileVars, fsLog >>

\* ------------------------------------------------------ dockerComposeGenerator
\* if (!dockerComposeConfig.status) return;
GenEntry_noGuard ==
    /\ pc = "gen_entry"
    /\ pc' = "gen_mkdtemp"
    /\ UNCHANGED << configVars, dirVars, runVars, asmVars, err, fileVars, fsLog >>

GenEntry ==
    /\ pc = "gen_entry"
    /\ pc' = IF ~status THEN "gen_returned" ELSE "gen_mkdtemp"
    /\ UNCHANGED << configVars, dirVars, runVars, asmVars, err, fileVars, fsLog >>

\* createTempDockerComposeFile: fs.mkdtemp makes a fresh directory.
MkdtempOk ==
    /\ pc = "gen_mkdtemp"
    /\ dirs' = dirs \cup { "tmp" }
    /\ created' = created \cup { "tmp" }
    /\ fsLog' = Append(fsLog, "mkdtemp")
    /\ pc' = "asm_header"
    /\ UNCHANGED << configVars, nonEmpty, runVars, asmVars, err, fileVars >>

MkdtempFail ==
    /\ pc = "gen_mkdtemp"
    /\ fsLog' = Append(fsLog, "mkdtemp")
    /\ err' = "mkdtemp failed"
    /\ pc' = "failed"
    /\ UNCHANGED << configVars, dirVars, runVars, asmVars, fileVars >>

\* fs.writeFile(tempFilePath, dockerComposeContent).
WriteTempOk_direct ==
    /\ pc = "asm_done"
    /\ finalFile' = File(content)
    /\ fsLog' = Append(fsLog, "write")
    /\ pc' = "gen_move"
    /\ UNCHANGED << configVars, dirVars, runVars, asmVars, err, tempFile, copied, inflight >>

WriteTempOk ==
    /\ pc = "asm_done"
    /\ tempFile' = File(content)
    /\ fsLog' = Append(fsLog, "write")
    /\ pc' = "gen_move"
    /\ UNCHANGED << configVars, dirVars, runVars, asmVars, err, finalFile, copied, inflight >>

\* The write rejects; the temporary file is missing or cut short.
WriteTempFail ==
    /\ pc = "asm_done"
    /\ tempFile' \in { NoFile, Partial(content) }
    /\ fsLog' = Append(fsLog, "write")
    /\ err' = "write failed"
    /\ pc' = "failed"
    /\ UNCHANGED << configVars, dirVars, runVars, asmVars, finalFile, copied, inflight >>

\* moveFile(tempFilePath, <project>/docker-compose.yml): mv source destination.
MoveFileOk ==
    /\ pc = "gen_move"
    /\ finalFile' = tempFile
    /\ tempFile' = NoFile
    /\ fsLog' = Append(fsLog, "mv")
    /\ pc' = "gen_copy"
    /\ UNCHANGED << configVars, dirVars, runVars, asmVars, err, copied, inflight >>

\* mv fails: the destination is untouched, or, when mv had to copy across
\* file systems, holds the part copied so far.
MoveFileFail ==
    /\ pc = "gen_move"
    /\ finalFile' \in { finalFile, Partial(tempFile.data) }
    /\ fsLog' = Append(fsLog, "mv")
    /\ err' = "mv failed"
    /\ pc' = "failed"
    /\ UNCHANGED << configVars, dirVars, runVars, asmVars, tempFile, copied, inflight >>

\* handleAdditionalFiles with both pushes made unconditionally.
CopyTasks_unconditional(selected) ==
    { "Dockerfile", "nginx.conf" }

\* handleAdditionalFiles: the copy tasks the selection asks for.
CopyTasks(selected) ==
    (IF Includes(selected, "node") THEN { "Dockerfile" } ELSE {})
    \cup (IF Includes(selected, "nginx") THEN { "nginx.conf" } ELSE {})

\* handleAdditionalFiles called without awaiting moveFile: the copies start
\* while mv is still running.
HandleAdditionalFiles_early ==
    /\ pc = "gen_move"
    /\ inflight = {}
    /\ copied = {}
    /\ ~Includes(fsLog, "cp")
    /\ inflight' = CopyTasks(services)
    /\ inflight' # {}
    /\ UNCHANGED << configVars, dirVars, runVars, asmVars, pc, err, tempFile,
                    finalFile, copied, fsLog >>

\* Both copyFile calls are made before Promise.all is awaited.
HandleAdditionalFiles ==
    /\ pc = "gen_copy"
    /\ inflight' = CopyTasks(services)
    /\ pc' = "gen_copy_wait"
    /\ UNCHANGED << configVars, dirVars, runVars, asmVars, err, tempFile, finalFile,
                    copied, fsLog >>

\* One cp finishes.
CopyFileOk ==
    \E f \in inflight :
        /\ "target" \in dirs
        /\ inflight' = inflight \ { f }
        /\ copied' = copied \cup { f }
        /\ fsLog' = Append(fsLog, "cp")
        /\ UNCHANGED << configVars, dirVars, runVars, asmVars, pc, err, tempFile, finalFile >>

\* One cp fails; Promise.all rejects on the first failure.
CopyFileFail ==
    \E f \in inflight :
        /\ inflight' = inflight \ { f }
        /\ fsLog' = Append(fsLog, "cp")
        /\ IF pc = "gen_copy_wait"
           THEN pc' = "failed" /\ err' = "cp failed"
           ELSE UNCHANGED << pc, err >>
        /\ UNCHANGED << configVars, dirVars, runVars, asmVars, tempFile, finalFile, copied >>

\* Promise.all resolves once every copy has.
CopyJoin ==
    /\ pc = "gen_copy_wait"
    /\ inflight = {}
    /\ pc' = "gen_done"
    /\ UNCHANGED << configVars, dirVars, runVars, asmVars, err, fileVars, fsLog >>

\* ------------------------------------------------------------ specifications
\* No prompt of selectDockerServices is recorded: the configuration of the
\* state is what the selector returned.
SelectorIdle ==
    /\ asked = << >>
    /\ cancelledAt = ""
    /\ rejects = 0
    /\ ask = 1

\* test/jest-e2e.json is the project's own ("own": what nest new generated,
\* or what the owner of an existing project keeps there) and
\* jest-module-name-mapper has not been installed by filesManager.
JestUntouched == [file |-> "own", mapper |-> FALSE]

\* A value a prompt hands back: an array with its values, or undefined.
Undefined == [array |-> FALSE, values |-> << >>]

\* promptSecurityOptions' answer when the operator wants no security utility.
SecurityDisabled == [enabled |-> FALSE, selections |-> << >>]

\* The options when every feature prompt was answered with No; an absent
\* prefix (undefined) is the empty text.
NoOptions ==
    [customFilter |-> FALSE, customPipe |-> FALSE, swaggerConfig |-> FALSE,
     apiVersioning |-> FALSE, customInterceptor |-> FALSE, prefix |-> << >>,
     securityOptions |-> SecurityDisabled]

\* The parts of the program outside the flow under study are at rest.
ExtrasIdle ==
    /\ nestOptions = << >>
    /\ sanitized = << >>
    /\ jest = JestUntouched
    /\ mainTs = << >>
    /\ mainOptions = NoOptions
    /\ modifications = << >>
    /\ securityEnabled = FALSE
    /\ selectedOptions = Undefined
    /\ securityOptions = SecurityDisabled
    /\ clock = 0
    /\ uploads = << >>
    /\ tempDirectory = FALSE

\* The assembler has not been called before.
FirstCall ==
    /\ firstContent = << >>
    /\ runs = 1
    /\ ExtrasIdle

\* commandManager has called initialization for an ordinary user.
InitializationDispatched ==
    /\ uid = 1000
    /\ argv = "init"
    /\ command = "initialization"
    /\ nestProject = FALSE
    /\ FirstCall

\* The project directory exists and is writable, nothing of the run around
\* the compose pipeline has happened.
ProjectExists ==
    /\ preDirs = { "grand", "parent", "target" }
    /\ dirs = preDirs
    /\ nonEmpty = TRUE
    /\ created = {}
    /\ writable = TRUE
    /\ newDirectory = "undefined"
    /\ rmFailed = {}
    /\ exitCode = -1
    /\ step = 1
    /\ SelectorIdle
    /\ InitializationDispatched

\* The assembler called on its own with every selection up to MaxServices.
InitAsm ==
    /\ status = TRUE
    /\ services \in Selections(MaxServices)
    /\ network \in NetworkNames
    /\ pc = "asm_header"
    /\ i = 1
    /\ content = << >>
    /\ fragments = << >>
    /\ err = ""
    /\ tempFile = NoFile
    /\ finalFile = NoFile
    /\ priorFile = NoFile
    /\ copied = {}
    /\ inflight = {}
    /\ fsLog = << >>
    /\ ProjectExists

\* The caller calls generateDockerComposeContent once more with the same
\* config object and the same templates, keeping what the first call returned.
AsmAgain ==
    /\ pc = "asm_done"
    /\ runs = 1
    /\ firstContent' = content
    /\ runs' = 2
    /\ fragments' = << >>
    /\ pc' = "asm_header"
    /\ UNCHANGED << status, services, network, priorFile, preDirs, writable, uid,
                    argv, command, nestProject, extraVars, selVars, dirVars,
                    runVars, i,
                    content, err, fileVars, fsLog >>

NextAsm == AsmHeader \/ AsmServiceOk \/ AsmServiceFail \/ AsmReturn

SpecAsm == InitAsm /\ [][NextAsm]_vars

\* Longest selection handed to the assembler twice.
MaxTwiceServices == 2

InitTwice ==
    /\ InitAsm
    /\ Len(services) <= MaxTwiceServices

SpecTwice == InitTwice /\ [][NextAsm \/ AsmAgain]_vars

\* A compose file a previous run left in the project.
OldCompose == File(<< NL, "services:", NL, "  old:", NL >>)

\* dockerComposeGenerator called with every configuration up to MaxGenServices.
InitGen ==
    /\ status \in BOOLEAN
    /\ services \in Selections(MaxGenServices)
    /\ network \in NetworkNames
    /\ pc = "gen_entry"
    /\ i = 1
    /\ content = << >>
    /\ fragments = << >>
    /\ err = ""
    /\ tempFile = NoFile
    /\ priorFile \in { NoFile, OldCompose }
    /\ finalFile = priorFile
    /\ copied = {}
    /\ inflight = {}
    /\ fsLog = << >>
    /\ ProjectExists

NextGen ==
    \/ GenEntry
    \/ MkdtempOk \/ MkdtempFail
    \/ NextAsm
    \/ WriteTempOk \/ WriteTempFail
    \/ MoveFileOk \/ MoveFileFail
    \/ HandleAdditionalFiles
    \/ CopyFileOk \/ CopyFileFail
    \/ CopyJoin

SpecGen == InitGen /\ [][NextGen]_vars

\* ------------------------------------------------------------- initialization
\* Longest selection the Docker prompts hand to a whole run.
MaxRunServices == 1

\* The prompts of initialization, in order, and what follows the last one.
PromptOrder == << "init_name", "init_perm", "init_git", "init_pm", "init_options", "init_parent" >>

\* The prompts of initialization and those of addFeature.
PromptSteps ==
    { "init_name", "init_git", "init_pm", "init_options",
      "add_path", "add_pm", "add_options" }

AfterPrompt(p) ==
    CASE p = "init_name" -> "init_perm"
      [] p = "init_git" -> "init_pm"
      [] p = "init_pm" -> "init_options"
      [] p = "init_options" -> "init_parent"
      [] p = "add_path" -> "add_perm"
      [] p = "add_pm" -> "add_options"
      [] p = "add_options" -> "gen_entry"

\* A prompt is answered: the project name, promptGitRepo,
\* promptPackageManager, collectOptions.
PromptAnswered ==
    /\ pc \in PromptSteps
    /\ pc' = AfterPrompt(pc)
    /\ UNCHANGED << configVars, dirVars, runVars, asmVars, err, fileVars, fsLog >>

\* cancelPrompt: the prompt was cancelled, process.exit(0).
PromptCancelled ==
    /\ pc \in PromptSteps
    /\ exitCode' = 0
    /\ pc' = "exited"
    /\ UNCHANGED << configVars, dirVars, newDirectory, rmFailed, step, asmVars,
                    err, fileVars, fsLog >>

\* ensureDirectoryPermissions without the call of isEmptyDirectory.
EnsureDirectoryPermissions_noEmptyCheck ==
    /\ pc = "init_perm"
    /\ IF ~writable
       THEN pc' = "failed" /\ err' = "Access denied"
       ELSE pc' = "init_git" /\ err' = err
    /\ UNCHANGED << configVars, dirVars, runVars, asmVars, fileVars, fsLog >>

\* ensureDirectoryPermissions(targetDirectory, parentDirectory):
\* canModifyDirectory throws 'Access denied', isEmptyDirectory throws
\* 'Directory is not empty' for an existing target with entries.
EnsureDirectoryPermissions ==
    /\ pc = "init_perm"
    /\ IF ~writable
       THEN pc' = "failed" /\ err' = "Access denied"
       ELSE IF "target" \in dirs /\ nonEmpty
       THEN pc' = "failed" /\ err' = "Directory is not empty"
       ELSE pc' = "init_git" /\ err' = err
    /\ UNCHANGED << configVars, dirVars, runVars, asmVars, fileVars, fsLog >>

\* createParentDirectory: { status: false } for an existing directory, else
\* mkdir -p, which also makes the missing ancestors, and { status: true, path }.
CreateParentDirectoryOk ==
    /\ pc = "init_parent"
    /\ IF "parent" \in dirs
       THEN /\ newDirectory' = "existed"
            /\ UNCHANGED << dirs, created >>
       ELSE /\ newDirectory' = "created"
            /\ dirs' = dirs \cup { "grand", "parent" }
            /\ created' = created \cup ({ "grand", "parent" } \ dirs)
    /\ pc' = "init_create"
    /\ UNCHANGED << configVars, nonEmpty, rmFailed, exitCode, step, asmVars,
                    err, fileVars, fsLog >>

\* mkdir -p fails; newDirectory stays undefined.
CreateParentDirectoryFail ==
    /\ pc = "init_parent"
    /\ "parent" \notin dirs
    /\ err' = "mkdir failed"
    /\ pc' = "failed"
    /\ UNCHANGED << configVars, dirVars, runVars, asmVars, fileVars, fsLog >>

\* createProject: nest new <projectName> in the parent directory, the package
\* installation and the env files.
CreateProjectOk ==
    /\ pc = "init_create"
    /\ dirs' = dirs \cup { "target" }
    /\ created' = created \cup ({ "target" } \ dirs)
    /\ nonEmpty' = TRUE
    /\ pc' = "gen_entry"
    /\ UNCHANGED << configVars, runVars, asmVars, err, fileVars, fsLog >>

\* One of the commands of createProject fails, before or after the project
\* directory was made.
CreateProjectFail ==
    /\ pc = "init_create"
    /\ \E made \in { {}, { "target" } } :
           /\ dirs' = dirs \cup made
           /\ created' = created \cup (made \ dirs)
           /\ nonEmpty' = IF made = {} THEN nonEmpty ELSE TRUE
    /\ err' = "nest new failed"
    /\ pc' = "failed"
    /\ UNCHANGED << configVars, runVars, asmVars, fileVars, fsLog >>

\* The steps of initializeProject that follow dockerComposeGenerator.
RestSteps ==
    << "makeMainDirectories", "manageAppModule", "filesManager",
       "modifyMainTsFile", "updateJestConfig", "runPrettier" >>

\* The steps that follow dockerComposeGenerator in the flow that runs:
\* featureFinalization has filesManager only.
Steps == IF command = "addFeature" THEN << "filesManager" >> ELSE RestSteps

AfterCompose == { "gen_returned", "gen_done", "init_rest" }

\* handleJestE2EConfig without the return for addingFeature.
handleJestE2EConfig_always(addingFeature) ==
    << jest,
       [file |-> "absent", mapper |-> jest.mapper],
       [file |-> "absent", mapper |-> TRUE],
       [file |-> "custom", mapper |-> TRUE] >>

\* handleJestE2EConfig: the states test/jest-e2e.json and the package go
\* through, from the call to the return: nothing when addingFeature, else
\* removeFile, packageInstallation of jest-module-name-mapper, copyFile of
\* configs/jest-e2e.json.
handleJestE2EConfig(addingFeature) ==
    IF addingFeature
    THEN << jest >>
    ELSE << jest,
            [file |-> "absent", mapper |-> jest.mapper],
            [file |-> "absent", mapper |-> TRUE],
            [file |-> "custom", mapper |-> TRUE] >>

\* filesManager(projectPath, packageManager, options, addingFeature) as
\* featureFinalization (true) and initializeProject (default false) call it.
AddingFeature == command = "addFeature"

\* A later step resolves; filesManager has then run handleJestE2EConfig to
\* its end.
RestStepOk ==
    /\ pc \in AfterCompose
    /\ step <= Len(Steps)
    /\ step' = step + 1
    /\ pc' = "init_rest"
    /\ jest' = IF Steps[step] = "filesManager"
               THEN LET stages == handleJestE2EConfig(AddingFeature)
                    IN  stages[Len(stages)]
               ELSE jest
    /\ UNCHANGED << status, services, network, priorFile, preDirs, writable, uid,
                    argv, command, nestProject, firstContent, runs, selVars,
                    optVars, mainVars, secVars, uploadVars, dirVars, newDirectory, rmFailed,
                    exitCode, asmVars, err, fileVars, fsLog >>

\* A later step whose rejection is caught where it happens: the error is
\* recorded and initializeProject goes on with the next step.
RestStepFail_swallowed ==
    /\ pc \in AfterCompose
    /\ step <= Len(Steps)
    /\ err' = Steps[step]
    /\ step' = step + 1
    /\ pc' = "init_rest"
    /\ UNCHANGED << configVars, dirVars, newDirectory, rmFailed, exitCode,
                    asmVars, fileVars, fsLog >>

\* A later step rejects: nothing in initializeProject catches it, the catch
\* of initialization hands it to errorHandler.  filesManager may reject
\* before, inside or after handleJestE2EConfig.
RestStepFail ==
    /\ pc \in AfterCompose
    /\ step <= Len(Steps)
    /\ err' = Steps[step]
    /\ pc' = "failed"
    /\ jest' \in IF Steps[step] = "filesManager"
                 THEN Range(handleJestE2EConfig(AddingFeature))
                 ELSE { jest }
    /\ UNCHANGED << status, services, network, priorFile, preDirs, writable, uid,
                    argv, command, nestProject, firstContent, runs, selVars,
                    optVars, mainVars, secVars, uploadVars, dirVars, runVars, asmVars, fileVars,
                    fsLog >>

\* outro(...): the run is complete.
Outro ==
    /\ pc \in AfterCompose
    /\ step > Len(Steps)
    /\ pc' = "completed"
    /\ UNCHANGED << configVars, dirVars, runVars, asmVars, err, fileVars, fsLog >>

\* --------------------------------------------------------------- errorHandler
\* if (projectDirectory) removeDirectory(projectDirectory), a failure of
\* rm -rf being caught and logged.  initialization passes targetDirectory,
\* addFeature calls errorHandler(error) with no directory.
HandlerRemoveProject ==
    /\ pc = "failed"
    /\ \/ /\ command = "addFeature" \/ "target" \notin dirs
          /\ UNCHANGED << dirs, nonEmpty, rmFailed, finalFile, copied >>
       \/ /\ command # "addFeature"
          /\ "target" \in dirs
          /\ writable
          /\ dirs' = dirs \ { "target" }
          /\ nonEmpty' = FALSE
          /\ finalFile' = NoFile
          /\ copied' = {}
          /\ UNCHANGED rmFailed
       \/ /\ command # "addFeature"
          /\ "target" \in dirs
          /\ rmFailed' = rmFailed \cup { "target" }
          /\ UNCHANGED << dirs, nonEmpty, finalFile, copied >>
    /\ pc' = "handler_parent"
    /\ UNCHANGED << configVars, created, newDirectory, exitCode, step, asmVars,
                    err, tempFile, inflight, fsLog >>

\* if (parentDirectory?.status && parentDirectory?.path)
\*   removeDirectory(parentDirectory.path).
HandlerRemoveParent ==
    /\ pc = "handler_parent"
    /\ \/ /\ newDirectory # "created" \/ "parent" \notin dirs
          /\ UNCHANGED << dirs, nonEmpty, rmFailed, finalFile, copied >>
       \/ /\ newDirectory = "created"
          /\ "parent" \in dirs
          /\ dirs' = dirs \ { "parent", "target" }
          /\ nonEmpty' = FALSE
          /\ finalFile' = NoFile
          /\ copied' = {}
          /\ UNCHANGED rmFailed
       \/ /\ newDirectory = "created"
          /\ "parent" \in dirs
          /\ rmFailed' = rmFailed \cup { "parent" }
          /\ UNCHANGED << dirs, nonEmpty, finalFile, copied >>
    /\ pc' = "handler_exit"
    /\ UNCHANGED << configVars, created, newDirectory, exitCode, step, asmVars,
                    err, tempFile, inflight, fsLog >>

\* process.exit(1).
HandlerExit ==
    /\ pc = "handler_exit"
    /\ exitCode' = 1
    /\ pc' = "exited"
    /\ UNCHANGED << configVars, dirVars, newDirectory, rmFailed, step, asmVars,
                    err, fileVars, fsLog >>

errorHandler == HandlerRemoveProject \/ HandlerRemoveParent \/ HandlerExit

\* A whole run of initialization.  The directories that exist at the start
\* are closed under ancestors; a target with entries exists.
InitRun ==
    /\ status \in BOOLEAN
    /\ services \in Selections(MaxRunServices)
    /\ network \in NetworkNames
    /\ pc = "init_name"
    /\ i = 1
    /\ content = << >>
    /\ fragments = << >>
    /\ err = ""
    /\ tempFile = NoFile
    /\ priorFile = NoFile
    /\ finalFile = NoFile
    /\ copied = {}
    /\ inflight = {}
    /\ fsLog = << >>
    /\ preDirs \in { {}, { "grand" }, { "grand", "parent" },
                     { "grand", "parent", "target" } }
    /\ dirs = preDirs
    /\ nonEmpty \in { b \in BOOLEAN : b => "target" \in preDirs }
    /\ created = {}
    /\ writable \in BOOLEAN
    /\ newDirectory = "undefined"
    /\ rmFailed = {}
    /\ exitCode = -1
    /\ step = 1
    /\ SelectorIdle
    /\ InitializationDispatched

NextRun ==
    \/ PromptAnswered \/ PromptCancelled
    \/ EnsureDirectoryPermissions
    \/ CreateParentDirectoryOk \/ CreateParentDirectoryFail
    \/ CreateProjectOk \/ CreateProjectFail
    \/ NextGen
    \/ RestStepOk \/ RestStepFail
    \/ Outro
    \/ errorHandler

SpecRun == InitRun /\ [][NextRun]_vars


\* ------------------------------------------------------- selectDockerServices
\* Inputs the validator of the network name may reject before one is accepted.
MaxRejects == 1

\* What a select prompt resolves to: the value of the chosen option, or the
\* cancel symbol of @clack/prompts.
Answers == { "yes", "no", "cancel" }

\* JavaScript truthiness of an answer: true and the cancel symbol are truthy.
Truthy(value) == value # "no"

\* isCancel of @clack/prompts.
isCancel(value) == value = "cancel"

\* What the operator may type at the network name prompt.
NetworkInputs ==
    { "", " ", "-", "appnet", "app-net", "App", "app net", "net1", "app_net",
      " appnet" }

\* The characters of an input.
Chars(input) ==
    CASE input = "" -> << >>
      [] input = " " -> << " " >>
      [] input = "-" -> << "-" >>
      [] input = "appnet" -> << "a", "p", "p", "n", "e", "t" >>
      [] input = "app-net" -> << "a", "p", "p", "-", "n", "e", "t" >>
      [] input = "App" -> << "A", "p", "p" >>
      [] input = "app net" -> << "a", "p", "p", " ", "n", "e", "t" >>
      [] input = "net1" -> << "n", "e", "t", "1" >>
      [] input = "app_net" -> << "a", "p", "p", "_", "n", "e", "t" >>
      [] input = " appnet" -> << " ", "a", "p", "p", "n", "e", "t" >>

\* The character class [a-zA-Z-].
LowerCase ==
    { "a", "b", "c", "d", "e", "f", "g", "h", "i", "j", "k", "l", "m",
      "n", "o", "p", "q", "r", "s", "t", "u", "v", "w", "x", "y", "z" }

UpperCase ==
    { "A", "B", "C", "D", "E", "F", "G", "H", "I", "J", "K", "L", "M",
      "N", "O", "P", "Q", "R", "S", "T", "U", "V", "W", "X", "Y", "Z" }

CharClass == LowerCase \cup UpperCase \cup { "-" }

\* The position after the longest run of class characters that starts at k.
RECURSIVE ClassRun(_, _)
ClassRun(cs, k) ==
    IF k <= Len(cs) /\ cs[k] \in CharClass THEN ClassRun(cs, k + 1) ELSE k

\* customValidator: /^[a-zA-Z-]+$/.test(input), a run of one or more class
\* characters from the start of the input to its end.
customValidator(input) ==
    LET end == ClassRun(Chars(input), 1)
    IN  end > 1 /\ end = Len(Chars(input)) + 1

\* String.prototype.trim, on the characters of the input.
RECURSIVE TrimStart(_)
TrimStart(cs) ==
    IF cs # << >> /\ Head(cs) = " " THEN TrimStart(Tail(cs)) ELSE cs

RECURSIVE TrimEnd(_)
TrimEnd(cs) ==
    IF cs # << >> /\ cs[Len(cs)] = " "
    THEN TrimEnd(SubSeq(cs, 1, Len(cs) - 1))
    ELSE cs

Trim(cs) == TrimEnd(TrimStart(cs))

\* validate of textPrompt without the custom validation.
validate_requiredOnly(input, required) ==
    IF required /\ Len(Trim(Chars(input))) = 0
    THEN "Value is required!"
    ELSE ""

\* validate of textPrompt as selectDockerServices calls it: the message of
\* the error, "" when the input is accepted.
validate(input, required) ==
    IF required /\ Len(Trim(Chars(input))) = 0
    THEN "Value is required!"
    ELSE IF ~customValidator(input)
    THEN "Input must contain only letters (a-z, A-Z) and hyphens (-)."
    ELSE ""

\* The askService calls of selectDockerServices, in order: the service and
\* the service of the follow-up question, "" when there is none.
Families ==
    << [service |-> "node", additionalService |-> ""],
       [service |-> "mongodb", additionalService |-> "mongo-express"],
       [service |-> "redis", additionalService |-> "redis-insight"],
       [service |-> "mysql", additionalService |-> "phpmyadmin"],
       [service |-> "postgresql", additionalService |-> "pgadmin"],
       [service |-> "rabbitmq", additionalService |-> ""],
       [service |-> "elasticsearch", additionalService |-> "kibana"],
       [service |-> "kafka", additionalService |-> ""],
       [service |-> "nginx", additionalService |-> ""] >>

\* cancelPrompt(value) on a cancelled prompt: process.exit(0).
CancelPrompt(prompt) ==
    /\ asked' = Append(asked, prompt)
    /\ cancelledAt' = prompt
    /\ exitCode' = 0
    /\ pc' = "exited"

\* "Do you need a docker-compose file?", cancelPrompt, and the return of
\* { status: false } on the answer no.
SelectCompose ==
    /\ pc = "sel_compose"
    /\ \E value \in Answers :
          IF isCancel(value)
          THEN /\ CancelPrompt("compose")
               /\ UNCHANGED status
          ELSE /\ asked' = Append(asked, "compose")
               /\ status' = Truthy(value)
               /\ pc' = IF Truthy(value) THEN "sel_network" ELSE "sel_returned"
               /\ UNCHANGED << cancelledAt, exitCode >>
    /\ UNCHANGED << services, network, envVars, rejects, ask, asmVars, err,
                    fileVars, fsLog, dirVars, newDirectory, rmFailed, step >>

\* "Do you need a custom network?": the answer is tested for truthiness and
\* is not handed to cancelPrompt.
SelectNetwork ==
    /\ pc = "sel_network"
    /\ \E value \in Answers :
          /\ asked' = Append(asked, "network")
          /\ cancelledAt' = IF isCancel(value) THEN "network" ELSE cancelledAt
          /\ pc' = IF Truthy(value) THEN "sel_network_name" ELSE "sel_ask"
    /\ UNCHANGED << status, services, network, envVars, rejects, ask, asmVars,
                    err, fileVars, fsLog, dirVars, runVars >>

\* "Enter a name for the network:": validate refuses the input, the prompt
\* shows the error and stays open.
NetworkNameRejected ==
    /\ pc = "sel_network_name"
    /\ rejects < MaxRejects
    /\ \E input \in NetworkInputs : validate(input, TRUE) # ""
    /\ rejects' = rejects + 1
    /\ UNCHANGED << status, services, network, envVars, asked, cancelledAt, ask,
                    pc, asmVars, err, fileVars, fsLog, dirVars, runVars >>

\* The input passes validate and becomes configs.network, or the prompt is
\* cancelled and cancelPrompt(configs.network) exits.
NetworkNameEntered ==
    /\ pc = "sel_network_name"
    /\ \/ /\ CancelPrompt("network name")
          /\ UNCHANGED network
       \/ \E input \in NetworkInputs :
             /\ validate(input, TRUE) = ""
             /\ network' = input
             /\ asked' = Append(asked, "network name")
             /\ pc' = "sel_ask"
             /\ UNCHANGED << cancelledAt, exitCode >>
    /\ UNCHANGED << status, services, envVars, rejects, ask, asmVars, err,
                    fileVars, fsLog, dirVars, newDirectory, rmFailed, step >>

\* askService put first in the list instead of pushed.
AskService_unshift ==
    /\ pc = "sel_ask"
    /\ ask <= Len(Families)
    /\ \E value \in Answers :
          IF isCancel(value)
          THEN /\ CancelPrompt(Families[ask].service)
               /\ UNCHANGED << services, ask >>
          ELSE /\ asked' = Append(asked, Families[ask].service)
               /\ services' = IF Truthy(value)
                              THEN << Families[ask].service >> \o services
                              ELSE services
               /\ IF Truthy(value) /\ Families[ask].additionalService # ""
                  THEN pc' = "sel_followup" /\ ask' = ask
                  ELSE pc' = "sel_ask" /\ ask' = ask + 1
               /\ UNCHANGED << cancelledAt, exitCode >>
    /\ UNCHANGED << status, network, envVars, rejects, asmVars, err, fileVars,
                    fsLog, dirVars, newDirectory, rmFailed, step >>

\* askService asking the follow-up whatever the first answer was.
AskService_alwaysFollowUp ==
    /\ pc = "sel_ask"
    /\ ask <= Len(Families)
    /\ \E value \in Answers :
          IF isCancel(value)
          THEN /\ CancelPrompt(Families[ask].service)
               /\ UNCHANGED << services, ask >>
          ELSE /\ asked' = Append(asked, Families[ask].service)
               /\ services' = IF Truthy(value)
                              THEN Append(services, Families[ask].service)
                              ELSE services
               /\ IF Families[ask].additionalService # ""
                  THEN pc' = "sel_followup" /\ ask' = ask
                  ELSE pc' = "sel_ask" /\ ask' = ask + 1
               /\ UNCHANGED << cancelledAt, exitCode >>
    /\ UNCHANGED << status, network, envVars, rejects, asmVars, err, fileVars,
                    fsLog, dirVars, newDirectory, rmFailed, step >>

\* askService, the first question: cancelPrompt, then on yes the service is
\* pushed and the follow-up, if the call has one, is asked.
AskService ==
    /\ pc = "sel_ask"
    /\ ask <= Len(Families)
    /\ \E value \in Answers :
          IF isCancel(value)
          THEN /\ CancelPrompt(Families[ask].service)
               /\ UNCHANGED << services, ask >>
          ELSE /\ asked' = Append(asked, Families[ask].service)
               /\ services' = IF Truthy(value)
                              THEN Append(services, Families[ask].service)
                              ELSE services
               /\ IF Truthy(value) /\ Families[ask].additionalService # ""
                  THEN pc' = "sel_followup" /\ ask' = ask
                  ELSE pc' = "sel_ask" /\ ask' = ask + 1
               /\ UNCHANGED << cancelledAt, exitCode >>
    /\ UNCHANGED << status, network, envVars, rejects, asmVars, err, fileVars,
                    fsLog, dirVars, newDirectory, rmFailed, step >>

\* askService, the follow-up question: cancelPrompt, then on yes the
\* additional service is pushed.
AskFollowUp ==
    /\ pc = "sel_followup"
    /\ \E value \in Answers :
          IF isCancel(value)
          THEN /\ CancelPrompt(Families[ask].additionalService)
               /\ UNCHANGED << services, ask >>
          ELSE /\ asked' = Append(asked, Families[ask].additionalService)
               /\ services' = IF Truthy(value)
                              THEN Append(services, Families[ask].additionalService)
                              ELSE services
               /\ pc' = "sel_ask"
               /\ ask' = ask + 1
               /\ UNCHANGED << cancelledAt, exitCode >>
    /\ UNCHANGED << status, network, envVars, rejects, asmVars, err, fileVars,
                    fsLog, dirVars, newDirectory, rmFailed, step >>

\* return configs.
SelectReturn ==
    /\ pc = "sel_ask"
    /\ ask > Len(Families)
    /\ pc' = "sel_returned"
    /\ UNCHANGED << configVars, asmVars, err, fileVars, fsLog, dirVars, runVars >>

\* The module has just been loaded: configs is { status: true, services: [],
\* network: "" } and the first prompt is on the screen.
InitSel ==
    /\ status = TRUE
    /\ services = << >>
    /\ network = ""
    /\ pc = "sel_compose"
    /\ i = 1
    /\ content = << >>
    /\ fragments = << >>
    /\ err = ""
    /\ tempFile = NoFile
    /\ priorFile = NoFile
    /\ finalFile = NoFile
    /\ copied = {}
    /\ inflight = {}
    /\ fsLog = << >>
    /\ preDirs \in { { "grand", "parent" }, { "grand", "parent", "target" } }
    /\ dirs = preDirs
    /\ nonEmpty = FALSE
    /\ created = {}
    /\ writable = TRUE
    /\ newDirectory = "undefined"
    /\ rmFailed = {}
    /\ exitCode = -1
    /\ step = 1
    /\ SelectorIdle
    /\ InitializationDispatched

selectDockerServices ==
    \/ SelectCompose
    \/ SelectNetwork
    \/ NetworkNameRejected \/ NetworkNameEntered
    \/ AskService \/ AskFollowUp
    \/ SelectReturn

SpecSel == InitSel /\ [][selectDockerServices]_vars

\* ----------------------------------------------------------------------- main
\* The first command-line argument: every command of commandManager, the
\* short form of init that older versions took, and an unknown word.
Arguments ==
    { "undefined", "init", "i", "--version", "-v", "--help", "-h",
      "--add-feature", "--list-features", "-l", "--bogus" }

\* verifyNonSudo without the test of the user id.
VerifyNonSudo_noCheck ==
    /\ pc = "main"
    /\ pc' = "cli_dispatch"
    /\ UNCHANGED << configVars, dirVars, runVars, asmVars, err, fileVars, fsLog >>

\* verifyNonSudo: for user id 0 the process ends with status 1, through
\* process.exit(1) or, the file having no import of chalk, through the
\* ReferenceError of chalk.red that rejects main(); commandManager is not
\* reached either way.
VerifyNonSudo ==
    /\ pc = "main"
    /\ IF uid = 0
       THEN pc' = "exited" /\ exitCode' = 1
       ELSE pc' = "cli_dispatch" /\ exitCode' = exitCode
    /\ UNCHANGED << configVars, dirVars, newDirectory, rmFailed, step, asmVars,
                    err, fileVars, fsLog >>

\* The function the switch of commandManager calls for an argument.
Dispatch(argument) ==
    CASE argument \in { "undefined", "init" } -> "initialization"
      [] argument \in { "--version", "-v" } -> "versionManager"
      [] argument \in { "--help", "-h" } -> "displayHelp"
      [] argument = "--add-feature" -> "addFeature"
      [] argument \in { "--list-features", "-l" } -> "displayFeaturesAndOptions"
      [] OTHER -> "error"

\* commandManager with the default case falling through to process.exit(0).
commandManager_defaultFallsThrough ==
    /\ pc = "cli_dispatch"
    /\ command' = Dispatch(argv)
    /\ CASE command' = "initialization" ->
              pc' = "init_name" /\ exitCode' = exitCode
         [] command' = "addFeature" ->
              pc' = "add_path" /\ exitCode' = exitCode
         [] OTHER ->
              pc' = "exited" /\ exitCode' = 0
    /\ UNCHANGED << status, services, network, priorFile, preDirs, writable, uid,
                    argv, nestProject, firstContent, runs, extraVars, selVars,
                    dirVars,
                    newDirectory, rmFailed, step, asmVars, err, fileVars, fsLog >>

\* commandManager: initialization() and addFeature() are started and the
\* function returns; the other commands run and fall to process.exit(0); the
\* default case prints the error and calls process.exit(1).
commandManager ==
    /\ pc = "cli_dispatch"
    /\ command' = Dispatch(argv)
    /\ CASE command' = "initialization" ->
              pc' = "init_name" /\ exitCode' = exitCode
         [] command' = "addFeature" ->
              pc' = "add_path" /\ exitCode' = exitCode
         [] command' = "error" ->
              pc' = "exited" /\ exitCode' = 1
         [] OTHER ->
              pc' = "exited" /\ exitCode' = 0
    /\ UNCHANGED << status, services, network, priorFile, preDirs, writable, uid,
                    argv, nestProject, firstContent, runs, extraVars, selVars,
                    dirVars,
                    newDirectory, rmFailed, step, asmVars, err, fileVars, fsLog >>

\* ------------------------------------------------------------------ addFeature
\* ensureDirectoryPermissions(targetDirectory, parentDirectory, true):
\* canModifyDirectory throws 'Access denied'; the emptiness of an existing
\* target is not looked at.
EnsureDirectoryPermissionsAdding ==
    /\ pc = "add_perm"
    /\ IF ~writable
       THEN pc' = "failed" /\ err' = "Access denied"
       ELSE pc' = "add_nest" /\ err' = err
    /\ UNCHANGED << configVars, dirVars, runVars, asmVars, fileVars, fsLog >>

\* isNestProject(targetDirectory): throws unless package.json is there and
\* names an @nestjs/ package.
IsNestProject ==
    /\ pc = "add_nest"
    /\ IF "target" \in dirs /\ nestProject
       THEN pc' = "add_pm" /\ err' = err
       ELSE pc' = "failed" /\ err' = "This is not a NestJS project"
    /\ UNCHANGED << configVars, dirVars, runVars, asmVars, fileVars, fsLog >>

addFeature == EnsureDirectoryPermissionsAdding \/ IsNestProject

\* The process has just started, as any user and with any argument.
InitCli ==
    /\ status \in BOOLEAN
    /\ services \in Selections(MaxRunServices)
    /\ network \in NetworkNames
    /\ pc = "main"
    /\ i = 1
    /\ content = << >>
    /\ fragments = << >>
    /\ err = ""
    /\ tempFile = NoFile
    /\ priorFile = NoFile
    /\ finalFile = NoFile
    /\ copied = {}
    /\ inflight = {}
    /\ fsLog = << >>
    /\ preDirs \in { { "grand" }, { "grand", "parent" },
                     { "grand", "parent", "target" } }
    /\ dirs = preDirs
    /\ nonEmpty \in { b \in BOOLEAN : b => "target" \in preDirs }
    /\ created = {}
    /\ writable \in BOOLEAN
    /\ newDirectory = "undefined"
    /\ rmFailed = {}
    /\ exitCode = -1
    /\ step = 1
    /\ SelectorIdle
    /\ uid \in { 0, 1000 }
    /\ argv \in Arguments
    /\ command = "none"
    /\ FirstCall
    /\ nestProject \in { b \in BOOLEAN : b => nonEmpty }

NextCli ==
    \/ VerifyNonSudo
    \/ commandManager
    \/ addFeature
    \/ NextRun

SpecCli == InitCli /\ [][NextCli]_vars

\* ------------------------------------------------------- sanitizeNestOptions
\* Longest list of words typed at the prompt.
MaxOptionWords == 3

\* The words the operator may type; consecutive words are one space apart.
OptionWords ==
    { "--strict", "--skip-git", "--package-manager", "npm", "yarn", "pnpm" }

\* The text of a list of words: the words with a space between two.
RECURSIVE Spaced(_)
Spaced(words) ==
    IF Len(words) <= 1 THEN words
    ELSE << Head(words), " " >> \o Spaced(Tail(words))

OptionInputs ==
    { Spaced(w) : w \in UNION { [1..k -> OptionWords] : k \in 0..MaxOptionWords } }

\* sanitizeNestOptions: '' for no options, else four String.replace calls
\* with string patterns, each removing the first occurrence only.
sanitizeNestOptions(options) ==
    IF options = << >> THEN << >>
    ELSE ReplaceFirst(
           ReplaceFirst(
             ReplaceFirst(
               ReplaceFirst(options, << "--skip-git" >>, << >>),
               << "--package-manager", " ", "npm" >>, << >>),
             << "--package-manager", " ", "yarn" >>, << >>),
           << "--package-manager", " ", "pnpm" >>, << >>)

\* "Enter any other 'nest new' options you need." and cancelPrompt.
NestOptionsPrompt ==
    /\ pc = "opt_prompt"
    /\ \/ /\ \E input \in OptionInputs : nestOptions' = input
          /\ pc' = "opt_sanitize"
          /\ UNCHANGED exitCode
       \/ /\ exitCode' = 0
          /\ pc' = "exited"
          /\ UNCHANGED nestOptions
    /\ UNCHANGED << baseVars, jestVars, mainVars, secVars, uploadVars, sanitized >>

\* nestOptions: sanitizeNestOptions(nestOptions) of the object collectOptions
\* returns.
SanitizeNestOptions ==
    /\ pc = "opt_sanitize"
    /\ sanitized' = sanitizeNestOptions(nestOptions)
    /\ pc' = "opt_done"
    /\ UNCHANGED << baseVars, jestVars, mainVars, secVars, uploadVars, exitCode, nestOptions >>

\* Nothing has run yet but the program is at the position p.
AtRest(p) ==
    /\ status = TRUE
    /\ services = << >>
    /\ network = ""
    /\ pc = p
    /\ i = 1
    /\ content = << >>
    /\ fragments = << >>
    /\ err = ""
    /\ tempFile = NoFile
    /\ priorFile = NoFile
    /\ finalFile = NoFile
    /\ copied = {}
    /\ inflight = {}
    /\ fsLog = << >>
    /\ ProjectExists

\* collectOptions has reached its last prompt.
InitOptions == AtRest("opt_prompt")

SpecOptions == InitOptions /\ [][NestOptionsPrompt \/ SanitizeNestOptions]_vars

\* ----------------------------------------------------------- modifyMainTsFile
\* The text insertGlobalMethod looks for: the app creation line.
AppCreationPattern == "const app = await NestFactory.create"

DefaultAppCreation == << AppCreationPattern, "(AppModule);" >>

TypedAppCreation ==
    << AppCreationPattern, "<NestExpressApplication>", "(AppModule);" >>

BootstrapCall == << "bootstrap()", ";" >>

WrappedBootstrapCall ==
    << "bootstrap()", ".catch(err => console.log(err))", ";" >>

RequiredImport ==
    << "import { NestExpressApplication } from '@nestjs/platform-express';" >>

\* src/main.ts as 'nest new' leaves it, a list of lines, each a list of
\* pieces of text.
NestNewMainTs ==
    << << "import { NestFactory } from '@nestjs/core';" >>,
       << "import { AppModule } from './app.module';" >>,
       << >>,
       << "async function ", "bootstrap()", " {" >>,
       << "  " >> \o DefaultAppCreation,
       << "  ", "await app.listen(process.env.PORT ?? 3000);" >>,
       << "}" >>,
       BootstrapCall >>

\* The lines of the modifications.
FilterLine == << "app.useGlobalFilters(new CustomExceptionFilter());" >>
PipeLine == << "app.useGlobalPipes(new ValidationPipe({...}));" >>
SwaggerLine == << "swaggerConfiguration(app);" >>
VersioningLine == << "app.enableVersioning({...});" >>
PrefixLine(prefix) == << "app.setGlobalPrefix(\"" >> \o prefix \o << "\");" >>
HelmetLine == << "app.use(helmet(helmetConfig));" >>
CorsLine == << "app.enableCors(getCorsConfig([\"*\"]));" >>
StaticAssetsLine == << "app.useStaticAssets(\"assets\");" >>

\* SECURITY_OPTIONS, in the order of the multi-select.
SECURITY_OPTIONS == << "cors", "helmet", "fake-tech-stack-headers" >>

\* The lists a multi-select can return: the chosen values, in list order.
RECURSIVE Sublists(_)
Sublists(s) ==
    IF s = << >> THEN { << >> }
    ELSE LET rest == Sublists(Tail(s))
         IN  rest \cup { << Head(s) >> \o r : r \in rest }

\* What the multi-select can hand back: an array of chosen values, or
\* undefined.
MultiselectAnswers ==
    { [array |-> TRUE, values |-> sel] : sel \in Sublists(SECURITY_OPTIONS) }
        \cup { Undefined }

\* promptSecurityOptions from the two answers to what it returns: the
\* selection normalised to an array of non-empty strings, and an empty one
\* treated as opting out.
promptSecurityOptions_keepEnabled(enabledAnswer, selected) ==
    IF ~enabledAnswer THEN SecurityDisabled
    ELSE [enabled |-> TRUE,
          selections |-> IF selected.array THEN selected.values ELSE << >>]

promptSecurityOptions(enabledAnswer, selected) ==
    IF ~enabledAnswer THEN SecurityDisabled
    ELSE LET selections ==
                 IF selected.array
                 THEN SelectSeq(selected.values, LAMBDA option : option # "")
                 ELSE << >>
             enabled == selections # << >>
         IN  [enabled |-> enabled,
              selections |-> IF enabled THEN selections ELSE << >>]

\* What promptGlobalPrefix can return: undefined (the empty text here), '/api'
\* or the trimmed text the operator typed, which nothing validates.
Prefixes == { << >>, << "/api" >>, << "v1" >>, << AppCreationPattern >> }

\* The options collectOptions can hand to modifyMainTsFile.
MainOptions ==
    [customFilter : BOOLEAN, customPipe : BOOLEAN, swaggerConfig : BOOLEAN,
     apiVersioning : BOOLEAN, customInterceptor : BOOLEAN, prefix : Prefixes,
     securityOptions : { securityOptions }]

\* sed '1i<statement>' for each statement: a new first line.
RECURSIVE insertImportStatement(_, _)
insertImportStatement(importStatement, file) ==
    IF importStatement = << >> THEN file
    ELSE insertImportStatement(Tail(importStatement),
                               << Head(importStatement) >> \o file)

\* sed '/^.*<pattern>.*$/a\  <text>': the text becomes a new line after every
\* line that holds the pattern.
RECURSIVE sedAppend(_, _, _)
sedAppend(file, pattern, text) ==
    IF file = << >> THEN << >>
    ELSE IF Includes(Head(file), pattern)
         THEN << Head(file), << "  " >> \o text >>
              \o sedAppend(Tail(file), pattern, text)
         ELSE << Head(file) >> \o sedAppend(Tail(file), pattern, text)

\* The line, then the comment, each appended after the app creation line.
insertGlobalMethod(line, comment, file) ==
    sedAppend(sedAppend(file, AppCreationPattern, line),
              AppCreationPattern, comment)

\* sed 's/bootstrap();/<wrapped>/': the first occurrence in every line.
wrapBootstrapCallWithCatch(file) ==
    [k \in 1..Len(file) |->
        ReplaceFirst(file[k], BootstrapCall, WrappedBootstrapCall)]

\* String.prototype.includes on the text of the whole file, for a text that
\* has no line break in it.
FileIncludes(file, text) ==
    \E k \in 1..Len(file) : IndexOf(file[k], text) # 0

\* String.prototype.replace on the text of the whole file: the first
\* occurrence only.
FileReplaceFirst(file, text, rep) ==
    LET hits == { k \in 1..Len(file) : IndexOf(file[k], text) # 0 }
        k == CHOOSE h \in hits : \A j \in hits : h <= j
    IN  IF hits = {} THEN file
        ELSE [file EXCEPT ![k] = ReplaceFirst(file[k], text, rep)]

ensureNestExpressApplication(file) ==
    LET imported == IF ~FileIncludes(file, RequiredImport)
                    THEN insertImportStatement(<< RequiredImport >>, file)
                    ELSE file
    IN  IF FileIncludes(imported, DefaultAppCreation)
        THEN FileReplaceFirst(imported, DefaultAppCreation, TypedAppCreation)
        ELSE imported

Modification(condition, importStatement, line, comment) ==
    [condition |-> condition, importStatement |-> importStatement,
     line |-> line, comment |-> comment]

customPipeModification(options) ==
    Modification(options.customPipe,
        << << "import { HttpStatus, ValidationPipe } from '@nestjs/common';" >> >>,
        PipeLine, << "// initialize custom validation pipe" >>)

Selected(options, utility) ==
    /\ options.securityOptions.enabled
    /\ Includes(options.securityOptions.selections, utility)

\* The modifications in the order modifyMainTsFile lists them.
Modifications(options) ==
    << Modification(options.customFilter,
         << << "import { CustomExceptionFilter } from './common/filters/exception.filter';" >> >>,
         FilterLine, << "// initialize custom exception filter" >>),
       customPipeModification(options),
       Modification(options.swaggerConfig,
         << << "import { swaggerConfiguration } from './configs/swagger.config';" >> >>,
         SwaggerLine, << "// initialize swagger" >>),
       Modification(options.apiVersioning,
         << << "import { VersioningType } from \"@nestjs/common\";" >> >>,
         VersioningLine, << "// Enable API versioning" >>),
       Modification(options.prefix # << >>, << >>,
         PrefixLine(options.prefix), << "// Set global prefix for all routes" >>),
       Modification(Selected(options, "helmet"),
         << << "import helmet from 'helmet';" >>,
            << "import { helmetConfig } from './security/helmet';" >> >>,
         HelmetLine, << "// Secure the app with Helmet" >>),
       Modification(Selected(options, "cors"),
         << << "import { getCorsConfig } from './security/cors';" >> >>,
         CorsLine, << "// Apply CORS config" >>),
       Modification(TRUE, << >>, StaticAssetsLine,
         << "// Register assets folder as static files directory" >>) >>

\* interceptorsConfig: the security interceptor, then the response one.
InterceptorsConfig(options) ==
    (IF Selected(options, "fake-tech-stack-headers")
     THEN << [importStatement |->
                << << "import { CustomHeadersInterceptor } from './security/custom-headers.Interceptor';" >> >>,
              instance |-> "new CustomHeadersInterceptor()"] >>
     ELSE << >>)
    \o
    (IF options.customInterceptor
     THEN << [importStatement |->
                << << "import { ResponseTransformerInterceptor } from './common/interceptor/response-transformer.interceptor';" >> >>,
              instance |-> "new ResponseTransformerInterceptor()"] >>
     ELSE << >>)

\* The interceptors line, placed before the custom pipe modification.
WithInterceptors(options) ==
    LET config == InterceptorsConfig(options)
        mods == Modifications(options)
        call == Join([k \in 1..Len(config) |-> << config[k].instance >>],
                     << ", " >>)
        interceptorsModification ==
            Modification(TRUE, << >>,
                << "app.useGlobalInterceptors(" >> \o call \o << ");" >>,
                << "// initialize custom interceptors" >>)
        customPipeIndex ==
            CHOOSE k \in 1..Len(mods) : mods[k] = customPipeModification(options)
    IN  IF config = << >> THEN mods
        ELSE SubSeq(mods, 1, customPipeIndex - 1)
             \o << interceptorsModification >>
             \o SubSeq(mods, customPipeIndex, Len(mods))

RECURSIVE InterceptorImports(_, _)
InterceptorImports(config, file) ==
    IF config = << >> THEN file
    ELSE InterceptorImports(Tail(config),
            insertImportStatement(Head(config).importStatement, file))

\* "Do you want to add security utilities?": Yes, No, or the prompt is
\* cancelled and the process exits.
PromptSecurityEnabled ==
    /\ pc = "sec_ask"
    /\ \/ /\ securityEnabled' = TRUE
          /\ pc' = "sec_select"
          /\ UNCHANGED << securityOptions, exitCode >>
       \/ /\ securityEnabled' = FALSE
          /\ securityOptions' = promptSecurityOptions(FALSE, selectedOptions)
          /\ pc' = "main_start"
          /\ UNCHANGED exitCode
       \/ /\ exitCode' = 0
          /\ pc' = "exited"
          /\ UNCHANGED << securityEnabled, securityOptions >>
    /\ UNCHANGED << baseVars, optVars, jestVars, mainVars, uploadVars, selectedOptions >>

\* "Select the security utilities you want to enable:", cancelPrompt, and
\* the return.
PromptSecuritySelect ==
    /\ pc = "sec_select"
    /\ \/ /\ \E selected \in MultiselectAnswers :
               /\ selectedOptions' = selected
               /\ securityOptions' =
                      promptSecurityOptions(securityEnabled, selected)
          /\ pc' = "main_start"
          /\ UNCHANGED exitCode
       \/ /\ exitCode' = 0
          /\ pc' = "exited"
          /\ UNCHANGED << selectedOptions, securityOptions >>
    /\ UNCHANGED << baseVars, optVars, jestVars, mainVars, uploadVars, securityEnabled >>

\* modifyMainTsFile up to its loop: the modifications are listed and the
\* interceptors' imports inserted.
ModifyMainTsFile ==
    /\ pc = "main_start"
    /\ \E options \in MainOptions :
         /\ mainOptions' = options
         /\ mainTs' = InterceptorImports(InterceptorsConfig(options), NestNewMainTs)
         /\ modifications' = WithInterceptors(options)
    /\ pc' = "main_mods"
    /\ UNCHANGED << baseVars, optVars, jestVars, secVars, uploadVars, exitCode >>

\* One turn of "for (const mod of modifications)".
ProcessModification ==
    /\ pc = "main_mods"
    /\ modifications # << >>
    /\ LET mod == Head(modifications)
       IN  mainTs' = IF mod.condition
                     THEN insertGlobalMethod(mod.line, mod.comment,
                            insertImportStatement(mod.importStatement, mainTs))
                     ELSE mainTs
    /\ modifications' = Tail(modifications)
    /\ UNCHANGED << baseVars, optVars, jestVars, secVars, uploadVars, exitCode, pc, mainOptions >>

\* "Replace Nest application with Nest Express Application".
EnsureNestExpressApplication ==
    /\ pc = "main_mods"
    /\ modifications = << >>
    /\ mainTs' = ensureNestExpressApplication(mainTs)
    /\ pc' = "main_wrap"
    /\ UNCHANGED << baseVars, optVars, jestVars, secVars, uploadVars, exitCode, mainOptions, modifications >>

\* "add catch to bootstrap call".
WrapBootstrapCallWithCatch ==
    /\ pc = "main_wrap"
    /\ mainTs' = wrapBootstrapCallWithCatch(mainTs)
    /\ pc' = "main_done"
    /\ UNCHANGED << baseVars, optVars, jestVars, secVars, uploadVars, exitCode, mainOptions, modifications >>

\* collectOptions has reached promptSecurityOptions.
InitMain == AtRest("sec_ask")

NextMain ==
    \/ PromptSecurityEnabled
    \/ PromptSecuritySelect
    \/ ModifyMainTsFile
    \/ ProcessModification
    \/ EnsureNestExpressApplication
    \/ WrapBootstrapCallWithCatch

SpecMain == InitMain /\ [][NextMain]_vars

\* ------------------------------------------------------ multer file uploader
\* Number of upload requests the server takes.
MaxUploads == 2

\* Last millisecond of the clock.
MaxClock == 2

\* The original names of the uploaded files, character by character; the
\* empty one is a file without an original name.
OriginalNames ==
    { << >>,
      << "a", " ", "b", ".", "T" >>,
      << "a", "-", "b", ".", "T" >>,
      << "c", ".", "t" >> }

\* Position of the last dot of the name, 0 when there is none.
LastDot(name) ==
    LET dots == { k \in 1..Len(name) : name[k] = "." }
    IN  IF dots = {} THEN 0
        ELSE CHOOSE k \in dots : \A j \in dots : j <= k

\* path.extname: from the last dot on, '' when there is no dot or the name
\* starts with its only dot.
extname(name) ==
    IF LastDot(name) <= 1 THEN << >>
    ELSE SubSeq(name, LastDot(name), Len(name))

\* path.basename(name, ext) of a name without directories.
basename(name, ext) ==
    IF /\ ext # << >>
       /\ Len(ext) < Len(name)
       /\ SubSeq(name, Len(name) - Len(ext) + 1, Len(name)) = ext
    THEN SubSeq(name, 1, Len(name) - Len(ext))
    ELSE name

\* String.prototype.toLowerCase.
toLowerCase(cs) ==
    [k \in 1..Len(cs) |->
        CASE cs[k] = "T" -> "t"
          [] cs[k] = "A" -> "a"
          [] cs[k] = "B" -> "b"
          [] cs[k] = "C" -> "c"
          [] OTHER -> cs[k]]

\* replace(/\s/g, '-').
HyphenateSpaces(cs) ==
    [k \in 1..Len(cs) |-> IF cs[k] = " " THEN "-" ELSE cs[k]]

\* String(Date.now() + originalName + ext): the time, then the name. The
\* time is kept apart from the characters; Date.now() has had thirteen
\* digits since 2001, so two times never differ in length.
multerFilename(now, originalname) ==
    [time |-> now,
     name |-> HyphenateSpaces(basename(originalname, extname(originalname)))
                \o toLowerCase(extname(originalname))]

\* A request with a file arrives.
ReceiveUpload ==
    /\ pc = "uploading"
    /\ Len(uploads) < MaxUploads
    /\ \E originalname \in OriginalNames :
         uploads' = Append(uploads,
            [originalname |-> originalname, stage |-> "received",
             destination |-> "", filename |-> [time |-> 0, name |-> << >>]])
    /\ UNCHANGED << baseVars, optVars, jestVars, mainVars, secVars, exitCode, pc, clock, tempDirectory >>

\* The callback multerDestination returns, for one request.
MulterDestination(r) ==
    /\ pc = "uploading"
    /\ uploads[r].stage = "received"
    /\ IF uploads[r].originalname = << >>
       THEN /\ uploads' = [uploads EXCEPT ![r].stage = "Invalid file data"]
            /\ UNCHANGED tempDirectory
       ELSE /\ tempDirectory' = TRUE
            /\ uploads' = [uploads EXCEPT ![r].stage = "destined",
                                          ![r].destination = "assets/.temp"]
    /\ UNCHANGED << baseVars, optVars, jestVars, mainVars, secVars, exitCode, pc, clock >>

\* multerFilename, for one request.
MulterFilename(r) ==
    /\ pc = "uploading"
    /\ uploads[r].stage = "destined"
    /\ uploads' = IF uploads[r].originalname = << >>
                  THEN [uploads EXCEPT ![r].stage = "Invalid file data"]
                  ELSE [uploads EXCEPT
                          ![r].stage = "named",
                          ![r].filename =
                              multerFilename(clock, uploads[r].originalname)]
    /\ UNCHANGED << baseVars, optVars, jestVars, mainVars, secVars, exitCode, pc, clock, tempDirectory >>

\* A millisecond passes.
Tick ==
    /\ pc = "uploading"
    /\ clock < MaxClock
    /\ clock' = clock + 1
    /\ UNCHANGED << baseVars, optVars, jestVars, mainVars, secVars, exitCode, pc, uploads, tempDirectory >>

\* The generated project is up and takes uploads.
InitUpload == AtRest("uploading")

NextUpload ==
    \/ ReceiveUpload
    \/ \E r \in 1..Len(uploads) : MulterDestination(r)
    \/ \E r \in 1..Len(uploads) : MulterFilename(r)
    \/ Tick

SpecUpload == InitUpload /\ [][NextUpload]_vars
\* ------------------------------------------------------------------ claims
\* The depends_on entries of a processed fragment: the tokens between its
\* depends_on line and its restart line, newlines dropped.
DependsEntries(f) ==
    LET d == IndexOf(f, << "    depends_on:" >>)
        r == IndexOf(f, << "    restart: always" >>)
    IN  IF d = 0 THEN << >>
        ELSE SelectSeq(SubSeq(f, d + 1, r - 1), LAMBDA t : t # NL)

\* The positions of the selection whose fragment has been produced and that
\* hold the application-runtime service.
NodePositions == { k \in 1..Len(fragments) : services[k] = "node" }

\* C1: the depends_on block of the node fragment lists exactly the selected
\* services of the allow-list {mongodb, redis, mysql, postgresql, rabbitmq,
\* elasticsearch, kafka}, each once, and there is no depends_on block when
\* none of them is selected.
C1_DependsOnIsAllowListMeetSelection ==
    \A k \in NodePositions :
        LET f == fragments[k]
            expected == { "mongodb", "redis", "mysql", "postgresql", "rabbitmq",
                          "elasticsearch", "kafka" } \cap Range(services)
        IN  /\ Range(DependsEntries(f)) = { DepLine(d) : d \in expected }
            /\ Len(DependsEntries(f)) = Cardinality(expected)
            /\ Count(f, "    depends_on:") = IF expected = {} THEN 0 ELSE 1

C1_Witness ==
    /\ pc = "asm_done"
    /\ Includes(services, "node")
    /\ Includes(services, "nginx")
    /\ Includes(services, "redis")

\* The order the depends_on entries are to be rendered in.
FixedOrder ==
    << "mongodb", "redis", "mysql", "postgresql", "rabbitmq", "elasticsearch",
       "kafka" >>

FixedPosition(entry) ==
    IF \E k \in 1..Len(FixedOrder) : DepLine(FixedOrder[k]) = entry
    THEN CHOOSE k \in 1..Len(FixedOrder) : DepLine(FixedOrder[k]) = entry
    ELSE 0

\* C2: the depends_on entries of the node fragment appear in the fixed order
\* mongodb, redis, mysql, postgresql, rabbitmq, elasticsearch, kafka, whatever
\* the order of the selection.
C2_DependsOnInFixedOrder ==
    \A k \in NodePositions :
        LET e == DependsEntries(fragments[k])
        IN  /\ \A a \in 1..Len(e) : FixedPosition(e[a]) > 0
            /\ \A a, b \in 1..Len(e) :
                   a < b => FixedPosition(e[a]) < FixedPosition(e[b])

C2_Witness ==
    /\ pc = "asm_done"
    /\ services = << "redis", "node", "mongodb" >>

\* C3: with a network name, the returned text has exactly one top-level
\* 'networks:' line and no placeholder token.
C3_OneNetworksBlockNoPlaceholder ==
    (pc = "asm_done" /\ network # "") =>
        /\ Count(content, "networks:") = 1
        /\ Count(content, PH) = 0

C3_Witness ==
    /\ pc = "asm_done"
    /\ network # ""
    /\ Includes(services, "elasticsearch")
    /\ Len(services) >= 2

\* C4: without a network name, the returned text has no 'networks:' line, at
\* the top level or inside a service, and no placeholder token.
C4_NoNetworksBlockNoPlaceholder ==
    (pc = "asm_done" /\ network = "") =>
        /\ Count(content, "networks:") = 0
        /\ Count(content, "    networks:") = 0
        /\ Count(content, PH) = 0

C4_Witness ==
    /\ pc = "asm_done"
    /\ network = ""
    /\ Includes(services, "elasticsearch")
    /\ Len(services) >= 2

\* The line that opens the entry of a service in the document.
KeyLine(service) ==
    CASE service = "node" -> "  node:"
      [] service = "mongodb" -> "  mongodb:"
      [] service = "mongo-express" -> "  mongo-express:"
      [] service = "redis" -> "  redis:"
      [] service = "redis-insight" -> "  redis-insight:"
      [] service = "mysql" -> "  mysql:"
      [] service = "phpmyadmin" -> "  phpmyadmin:"
      [] service = "postgresql" -> "  postgresql:"
      [] service = "pgadmin" -> "  pgadmin:"
      [] service = "rabbitmq" -> "  rabbitmq:"
      [] service = "elasticsearch" -> "  elasticsearch:"
      [] service = "kibana" -> "  kibana:"
      [] service = "kafka" -> "  kafka:"
      [] service = "nginx" -> "  nginx:"
      [] OTHER -> "  ?:"

IsKeyLine(t) == \E s \in CatalogIds : KeyLine(s) = t

\* C5: the returned text has exactly one 'services:' line, and after it one
\* entry per selected service, in the order of the selection.
C5_OneHeaderFragmentsInSelectionOrder ==
    pc = "asm_done" =>
        /\ Count(content, "services:") = 1
        /\ SelectSeq(content, IsKeyLine)
             = [ k \in 1..Len(services) |-> KeyLine(services[k]) ]
        /\ \A k \in 1..Len(content) :
               IsKeyLine(content[k]) => IndexOf(content, << "services:" >>) < k

C5_Witness ==
    /\ pc = "asm_done"
    /\ Len(services) >= 2
    /\ services[1] = "nginx"
    /\ services[2] = "node"

\* C6: a configuration whose status is false makes dockerComposeGenerator
\* return with no filesystem operation performed, nothing created, written,
\* moved or copied, and no error.
C6_NotRequestedIsNoOp ==
    ~status =>
        /\ pc \in { "gen_entry", "gen_returned" }
        /\ fsLog = << >>
        /\ dirs = preDirs
        /\ created = {}
        /\ tempFile = NoFile
        /\ finalFile = priorFile
        /\ copied = {}
        /\ inflight = {}
        /\ err = ""

C6_Witness ==
    /\ ~status
    /\ pc = "gen_returned"
    /\ Len(services) > 0
    /\ priorFile = OldCompose

\* C7: <project>/docker-compose.yml changes only in the move step, when the
\* whole selection has been assembled and the temporary file holds all of the
\* assembled text; after a failure of mkdtemp, of the assembly or of the
\* temporary write it is as it was at the call.
C7_FinalPathOnlyChangedByMove ==
    /\ [][ finalFile' # finalFile =>
             /\ pc = "gen_move"
             /\ i > Len(services)
             /\ Len(fragments) = Len(services)
             /\ tempFile = File(content) ]_vars
    /\ [](( /\ pc = "failed"
            /\ err \in { "mkdtemp failed", "ENOENT", "read failed", "write failed" } )
          => finalFile = priorFile)

C7_Witness ==
    /\ pc = "gen_copy"
    /\ priorFile = OldCompose
    /\ finalFile = File(content)
    /\ Len(services) = 2

\* The first position of the selection that has no template, 0 when every
\* selected identifier has one.
FirstMissing ==
    LET missing == { k \in 1..Len(services) : ~HasTemplate(services[k]) }
    IN  IF missing = {} THEN 0
        ELSE CHOOSE k \in missing : \A j \in missing : k <= j

\* The number of service templates fs.readFile has been called on.
TemplateReads ==
    Count(fsLog, "read") - (IF network # "" THEN 1 ELSE 0)

\* C8: when a selected identifier has no template, the loop never gets past
\* it, no text is returned, nothing is written or moved to the final path, and
\* the pipeline that stops at that identifier stops with the read error.
C8_MissingTemplateAborts ==
    (status /\ FirstMissing > 0) =>
        /\ i <= FirstMissing
        /\ Len(fragments) < FirstMissing
        /\ pc \in { "gen_entry", "gen_mkdtemp", "asm_header", "asm_service", "failed" }
        /\ TemplateReads = FirstMissing => (pc = "failed" /\ err = "ENOENT")
        /\ tempFile = NoFile
        /\ finalFile = priorFile
        /\ copied = {}

C8_Witness ==
    /\ pc = "failed"
    /\ err = "ENOENT"
    /\ Len(services) = 2
    /\ services[1] = "node"
    /\ ~HasTemplate(services[2])
    /\ Len(fragments) = 1

\* C9: no directory that existed before the run is deleted, whatever fails.
C9_PreexistingDirectoriesKept ==
    preDirs \subseteq dirs

\* C10: a run that exits after an error exits with status 1, and every
\* directory it created (project, parents, temporary directory) is gone
\* unless a removal failed.
C10_ExitAfterErrorLeavesNothingCreated ==
    (pc = "exited" /\ err # "") =>
        /\ exitCode = 1
        /\ rmFailed = {} => created \cap dirs = {}


\* ------------------------------------------------------------------ C12
\* C12: when compose generation is requested, Dockerfile is copied into the
\* project root exactly when node is selected and nginx.conf exactly when
\* nginx is selected, and no other companion file is copied: at every moment
\* the files copied or being copied belong to selected owners, and when
\* dockerComposeGenerator has resolved both equivalences hold.
C12_CompanionFilesFollowSelection ==
    /\ copied \cup inflight \subseteq { "Dockerfile", "nginx.conf" }
    /\ "Dockerfile" \in copied \cup inflight => Includes(services, "node")
    /\ "nginx.conf" \in copied \cup inflight => Includes(services, "nginx")
    /\ (copied \cup inflight # {}) => status
    /\ pc = "gen_done" =>
          /\ "Dockerfile" \in copied <=> Includes(services, "node")
          /\ "nginx.conf" \in copied <=> Includes(services, "nginx")

\* A requested run that selected node and not nginx has finished.
C12_Witness ==
    /\ pc = "gen_done"
    /\ status
    /\ Includes(services, "node")
    /\ ~Includes(services, "nginx")
    /\ copied = { "Dockerfile" }

\* ------------------------------------------------------------------ C13
\* C13 as stated: at no point are two filesystem operations of the compose
\* pipeline in flight at the same time.
C13_AtMostOneOperationInFlight ==
    Cardinality(inflight) <= 1

\* C13 amended: the pipeline is sequential up to and including the move of
\* the compose file; the companion-file copies are started together and
\* awaited with Promise.all, so up to two copies, and nothing but copies, may
\* be in flight at once: a copy is in flight only after the move has
\* completed, and no read, write or move is performed once a copy has.
C13_OnlyCopiesOverlap ==
    /\ Cardinality(inflight) <= 2
    /\ inflight # {} => (Includes(fsLog, "mv") /\ finalFile.exists)
    /\ \A a, b \in 1..Len(fsLog) :
          (a < b /\ fsLog[a] = "cp") => fsLog[b] = "cp"

\* Both copies are in flight at once.
C13_Witness ==
    /\ pc = "gen_copy_wait"
    /\ inflight = { "Dockerfile", "nginx.conf" }

\* ------------------------------------------------------------------ C17
\* C17: a failure of any step of project initialization is not caught or
\* retried by that step: the step that fails hands control to the error
\* handler, the recorded error never changes afterwards, no later step of
\* initializeProject runs, and the handler is entered once, from the failure.
C17_FailurePropagatesOnce ==
    [][ /\ (err = "" /\ err' # "") => pc' = "failed"
        /\ err # "" =>
              /\ err' = err
              /\ step' = step
              /\ pc \in { "failed", "handler_parent", "handler_exit", "exited" }
              /\ pc' \in { "failed", "handler_parent", "handler_exit", "exited" }
        /\ pc = "failed" => pc' \in { "failed", "handler_parent" }
        /\ pc' = "handler_parent" => pc \in { "failed", "handler_parent" }
        /\ pc \in { "handler_parent", "handler_exit", "exited" } => pc' # "failed"
      ]_vars

\* The artifact writer failed, the handler ran and the process exited before
\* any later step.
C17_Witness ==
    /\ pc = "exited"
    /\ exitCode = 1
    /\ err = "write failed"
    /\ step = 1

\* ------------------------------------------------------------------ C14
\* The order in which selectDockerServices asks for the services.
FixedPromptOrder ==
    << "node", "mongodb", "mongo-express", "redis", "redis-insight", "mysql",
       "phpmyadmin", "postgresql", "pgadmin", "rabbitmq", "elasticsearch",
       "kibana", "kafka", "nginx" >>

PromptPosition(service) ==
    CHOOSE k \in 1..Len(FixedPromptOrder) : FixedPromptOrder[k] = service

\* C14: a requested selection returned by selectDockerServices holds each
\* service identifier at most once and is a subsequence of the fixed prompt
\* order.
C14_SelectionIsSubsequenceOfPromptOrder ==
    (pc = "sel_returned" /\ status) =>
        /\ Range(services) \subseteq Range(FixedPromptOrder)
        /\ \A a, b \in 1..Len(services) : a # b => services[a] # services[b]
        /\ \A a, b \in 1..Len(services) :
              a < b => PromptPosition(services[a]) < PromptPosition(services[b])

\* A selection with gaps has been returned.
C14_Witness ==
    /\ pc = "sel_returned"
    /\ status
    /\ services = << "mongodb", "mongo-express", "kafka", "nginx" >>

\* ------------------------------------------------------------------ C15
\* The admin-UI services and the service each one belongs to.
Companions ==
    { << "mongodb", "mongo-express" >>, << "redis", "redis-insight" >>,
      << "mysql", "phpmyadmin" >>, << "postgresql", "pgadmin" >>,
      << "elasticsearch", "kibana" >> }

\* C15: a companion is asked about only right after its primary was asked
\* and answered yes, and a selection that holds a companion holds its primary
\* immediately before it.
C15_CompanionFollowsPrimary ==
    \A pair \in Companions :
        /\ \A k \in 1..Len(asked) :
              asked[k] = pair[2] =>
                  /\ k > 1
                  /\ asked[k - 1] = pair[1]
                  /\ Includes(services, pair[1])
        /\ \A k \in 1..Len(services) :
              services[k] = pair[2] => (k > 1 /\ services[k - 1] = pair[1])

\* Returned: kibana with elasticsearch, mongodb without mongo-express, and
\* mysql refused so that phpmyadmin was never asked.
C15_Witness ==
    /\ pc = "sel_returned"
    /\ Includes(services, "kibana")
    /\ Includes(services, "mongodb")
    /\ ~Includes(services, "mongo-express")
    /\ Includes(asked, "mongo-express")
    /\ ~Includes(asked, "phpmyadmin")

\* ------------------------------------------------------------------ C16
\* A non-empty string of letters and hyphens.
ValidNetworkName(name) ==
    /\ Len(Chars(name)) >= 1
    /\ \A k \in 1..Len(Chars(name)) :
          Chars(name)[k] \in LowerCase \cup UpperCase \cup { "-" }

\* C16: the network of the configuration is always empty or a non-empty
\* string of letters and hyphens, and the network name prompt is left only
\* with such a name or by the exit of a cancelled prompt: an invalid name
\* keeps the prompt open.
C16_NetworkEmptyOrValid ==
    /\ [](network = "" \/ ValidNetworkName(network))
    /\ [][ (pc = "sel_network_name" /\ pc' # "sel_network_name") =>
              \/ pc' = "exited" /\ exitCode' = 0
              \/ pc' = "sel_ask" /\ ValidNetworkName(network')
         ]_vars

\* A name was accepted after the validator had refused an input.
C16_Witness ==
    /\ pc = "sel_returned"
    /\ network = "app-net"
    /\ rejects > 0

\* ------------------------------------------------------------------ C18
\* C18: cancelling any prompt of the selector ends the run at that prompt
\* with exit status 0: it is the last prompt shown, and no directory or file
\* has been created or modified.
C18_CancelEndsRunAtThatPrompt ==
    cancelledAt # "" =>
        /\ pc = "exited"
        /\ exitCode = 0
        /\ asked[Len(asked)] = cancelledAt
        /\ dirs = preDirs
        /\ fsLog = << >>
        /\ finalFile = priorFile

\* ------------------------------------------------------------------ C19
\* C19: run as root, the CLI exits with status 1 before any command is
\* dispatched, whatever the argument: commandManager calls nothing, no prompt
\* is shown and no filesystem operation is performed.
C19_RootExitsBeforeDispatch ==
    uid = 0 =>
        /\ pc \in { "main", "exited" }
        /\ pc = "exited" => exitCode = 1
        /\ command = "none"
        /\ asked = << >>
        /\ fsLog = << >>
        /\ dirs = preDirs
        /\ created = {}
        /\ finalFile = priorFile

\* Root asked for feature addition on a NestJS project and the process is over.
C19_Witness ==
    /\ uid = 0
    /\ argv = "--add-feature"
    /\ nestProject
    /\ pc = "exited"
    /\ exitCode = 1

\* ------------------------------------------------------------------ C20
\* The commands that print and exit.
Informational ==
    { "--version", "-v", "--help", "-h", "--list-features", "-l" }

\* C20: commandManager dispatches on the first argument: absent or init
\* starts initialization, --add-feature starts feature addition, the version,
\* help and list-features flags run their action and exit with status 0, and
\* any other argument exits with status 1 without starting any flow.
C20_DispatchOnFirstArgument ==
    /\ [](command # "none" =>
            /\ argv \in { "undefined", "init" } <=> command = "initialization"
            /\ argv = "--add-feature" <=> command = "addFeature"
            /\ argv \in { "--version", "-v" } <=> command = "versionManager"
            /\ argv \in { "--help", "-h" } <=> command = "displayHelp"
            /\ argv \in { "--list-features", "-l" } <=>
                  command = "displayFeaturesAndOptions"
            /\ argv \in Informational => (pc = "exited" /\ exitCode = 0)
            /\ argv \notin Informational \cup { "undefined", "init", "--add-feature" } =>
                  /\ command = "error"
                  /\ pc = "exited"
                  /\ exitCode = 1
            /\ command \notin { "initialization", "addFeature" } =>
                  /\ fsLog = << >>
                  /\ dirs = preDirs
                  /\ err = "")
    /\ [][ pc = "cli_dispatch" =>
              /\ argv \in { "undefined", "init" } => pc' = "init_name"
              /\ argv = "--add-feature" => pc' = "add_path"
         ]_vars

\* The short list-features flag was given: displayFeaturesAndOptions has run
\* and the process has exited with status 0.
C20_Witness ==
    /\ argv = "-l"
    /\ command = "displayFeaturesAndOptions"
    /\ pc = "exited"
    /\ exitCode = 0

\* ------------------------------------------------------------------ C11
\* C11: called twice with the same selection, the same network and the same
\* templates, the assembler returns the same text both times, and it never
\* changes the service list or the network it is given.
C11_SecondCallReturnsSameText ==
    /\ []((pc = "asm_done" /\ runs = 2) => content = firstContent)
    /\ [][services' = services /\ network' = network]_vars

\* The second call has returned for a selection with node, a service it
\* depends on and a custom network.
C11_Witness ==
    /\ pc = "asm_done"
    /\ runs = 2
    /\ network # ""
    /\ Len(services) = 2
    /\ Includes(services, "node")
    /\ Includes(services, "redis")
    /\ Len(firstContent) > 2

\* ------------------------------------------------------------------ C21
\* The package managers a --package-manager flag may name.
PackageManagers == { "npm", "yarn", "pnpm" }

\* C21: whatever the operator typed, the options sanitizeNestOptions returns
\* hold no --skip-git flag and no --package-manager flag naming npm, yarn or
\* pnpm, also when a flag was typed more than once.
C21_NoConflictingFlagLeft ==
    pc = "opt_done" =>
        /\ ~Includes(sanitized, "--skip-git")
        /\ \A pm \in PackageManagers :
              IndexOf(sanitized, << "--package-manager", " ", pm >>) = 0

\* ------------------------------------------------------------------ C22
\* The position of filesManager among the steps of initializeProject.
FilesManagerStep == CHOOSE k \in 1..Len(RestSteps) : RestSteps[k] = "filesManager"

\* C22: in add-feature mode test/jest-e2e.json is left as it was and
\* jest-module-name-mapper is not installed, and no directory that existed
\* at the start is deleted, also when a step fails; in initialization mode
\* filesManager, once it has resolved, has replaced the file by the custom
\* one and installed the package.
C22_AddFeatureLeavesJestAndProject ==
    /\ command = "addFeature" =>
          /\ jest = [file |-> "own", mapper |-> FALSE]
          /\ preDirs \subseteq dirs
          /\ rmFailed = {}
    /\ (command = "initialization" /\ step > FilesManagerStep) =>
          jest = [file |-> "custom", mapper |-> TRUE]
    /\ (command = "initialization" /\ step < FilesManagerStep) =>
          jest = [file |-> "own", mapper |-> FALSE]

\* A step of feature addition failed after the compose file had been moved
\* into the project, and the process has exited.
C22_Witness ==
    /\ command = "addFeature"
    /\ pc = "exited"
    /\ exitCode = 1
    /\ err = "filesManager"
    /\ finalFile.exists
    /\ "target" \in dirs

\* ------------------------------------------------------------------ C24
\* The prompts of initialization that follow ensureDirectoryPermissions, and
\* the creation of the parent directory after them.
AfterPermissionCheck == { "init_git", "init_pm", "init_options", "init_parent" }

\* C24 as stated: in initialization mode an existing target with entries
\* makes the run fail with 'Directory is not empty' before the Git,
\* package-manager and feature prompts and before anything is created; in
\* add-feature mode the emptiness check is skipped and such a target is
\* accepted provided it is a NestJS project.
C24_NonEmptyTargetFailsNotEmpty ==
    [][ /\ (pc = "init_perm" /\ "target" \in dirs /\ nonEmpty) =>
              /\ pc' = "failed"
              /\ err' = "Directory is not empty"
              /\ dirs' = dirs
              /\ created' = {}
        /\ pc' \in AfterPermissionCheck => ("target" \notin dirs \/ ~nonEmpty)
        /\ (pc = "add_perm" /\ writable) => (pc' = "add_nest" /\ err' = "")
        /\ (pc = "add_nest" /\ "target" \in dirs /\ nestProject) =>
              (pc' = "add_pm" /\ err' = "")
      ]_vars

\* C24 amended: in initialization mode an existing target with entries makes
\* the run fail before the Git, package-manager and feature prompts and
\* before anything is created, with 'Directory is not empty' when the
\* closest existing ancestor of the parent is writable and with 'Access
\* denied' when it is not, the write check coming first; in add-feature mode
\* the emptiness check is skipped and such a target is accepted provided the
\* parent is writable and the target is a NestJS project.
C24_NonEmptyTargetFailsBeforePrompts ==
    [][ /\ (pc = "init_perm" /\ "target" \in dirs /\ nonEmpty) =>
              /\ pc' = "failed"
              /\ err' = IF writable THEN "Directory is not empty"
                                    ELSE "Access denied"
              /\ dirs' = dirs
              /\ created' = {}
              /\ fsLog' = << >>
        /\ pc' \in AfterPermissionCheck => ("target" \notin dirs \/ ~nonEmpty)
        /\ (pc = "add_perm" /\ writable) => (pc' = "add_nest" /\ err' = "")
        /\ (pc = "add_perm" /\ ~writable) =>
              (pc' = "failed" /\ err' = "Access denied")
        /\ (pc = "add_nest" /\ "target" \in dirs /\ nestProject) =>
              (pc' = "add_pm" /\ err' = "")
        /\ (pc = "add_nest" /\ ~nestProject) =>
              (pc' = "failed" /\ err' = "This is not a NestJS project")
      ]_vars

\* Initialization has failed on a target with entries whose parent is not
\* writable.
C24_Witness ==
    /\ command = "initialization"
    /\ pc = "failed"
    /\ err = "Access denied"
    /\ "target" \in dirs
    /\ nonEmpty
    /\ created = {}

\* ------------------------------------------------------------------- C23
\* Number of lines of the file that hold the text.
LineCount(file, text) ==
    Cardinality({ k \in 1..Len(file) : IndexOf(file[k], text) # 0 })

HasLine(file, text) == LineCount(file, text) > 0

\* main.ts is as the README describes it for the options chosen.
MainTsWired ==
    /\ LineCount(mainTs, StaticAssetsLine) = 1
    /\ HasLine(mainTs, TypedAppCreation)
    /\ ~HasLine(mainTs, DefaultAppCreation)
    /\ LineCount(mainTs, RequiredImport) = 1
    /\ HasLine(mainTs, WrappedBootstrapCall)
    /\ ~HasLine(mainTs, BootstrapCall)
    /\ HasLine(mainTs, FilterLine) <=> mainOptions.customFilter
    /\ HasLine(mainTs, PipeLine) <=> mainOptions.customPipe
    /\ HasLine(mainTs, SwaggerLine) <=> mainOptions.swaggerConfig
    /\ HasLine(mainTs, VersioningLine) <=> mainOptions.apiVersioning
    /\ HasLine(mainTs, << "app.setGlobalPrefix(\"" >>)
         <=> mainOptions.prefix # << >>
    /\ HasLine(mainTs, HelmetLine)
         <=> Includes(mainOptions.securityOptions.selections, "helmet")
    /\ HasLine(mainTs, CorsLine)
         <=> Includes(mainOptions.securityOptions.selections, "cors")

\* C23: for every combination of options, after modifyMainTsFile main.ts has
\* exactly one app.useStaticAssets line, the typed app creation call with the
\* NestExpressApplication import exactly once and the wrapped bootstrap()
\* call, and the line of a filter, pipe, Swagger, versioning, prefix, Helmet
\* or CORS option if and only if that option was selected.
C23_MainTsWiredForEveryOptions == pc = "main_done" => MainTsWired

\* The same for every prefix that does not itself hold the text of the app
\* creation line.
MainTsWiredForOtherPrefixes ==
    (pc = "main_done" /\ ~Includes(mainOptions.prefix, AppCreationPattern))
        => MainTsWired

\* ------------------------------------------------------------------- C25
\* promptSecurityOptions has returned.
SecurityReturned ==
    pc \in { "main_start", "main_mods", "main_wrap", "main_done" }

\* The operator chose nothing at the multi-select.
NothingSelected == ~selectedOptions.array \/ selectedOptions.values = << >>

\* C25: promptSecurityOptions returns enabled true if and only if selections
\* is non-empty; declining, or opting in and selecting nothing, both give
\* { enabled: false, selections: [] }; every selection is one of 'cors',
\* 'helmet', 'fake-tech-stack-headers'.
C25_EnabledIffSomethingSelected ==
    SecurityReturned =>
        /\ securityOptions.enabled <=> securityOptions.selections # << >>
        /\ (~securityEnabled \/ NothingSelected)
               => securityOptions = [enabled |-> FALSE, selections |-> << >>]
        /\ Range(securityOptions.selections)
               \subseteq { "cors", "helmet", "fake-tech-stack-headers" }

\* The operator opted in and then selected nothing.
C25_Witness ==
    /\ SecurityReturned
    /\ securityEnabled
    /\ selectedOptions = [array |-> TRUE, values |-> << >>]
    /\ ~securityOptions.enabled

\* ------------------------------------------------------------------- C26
\* The requests that multerFilename has given a filename.
Named == { r \in 1..Len(uploads) : uploads[r].stage = "named" }

\* C26: two uploads, concurrent uploads of files with the same original name
\* included, never receive the same temporary filename.
C26_FilenamesUnique ==
    \A r, q \in Named : r # q => uploads[r].filename # uploads[q].filename

\* Two uploads named in different milliseconds have different filenames.
FilenamesDifferAcrossMilliseconds ==
    \A r, q \in Named :
        uploads[r].filename.time # uploads[q].filename.time
            => uploads[r].filename # uploads[q].filename
====
